---- MODULE Spec2Model ----
(***************************************************************************)
(* Verification model of the Vela compiler core (ethosu/vela):             *)
(*   - lut.py          : LUTState and optimize_high_level_cmd_stream        *)
(*   - pass_packing.py : pack_into_passes                                   *)
(*   - api.py          : npu_get_API_version                                *)
(*   - supported_operators.py : SupportedOperators.is_operator_supported    *)
(* Spec      is the LUT rewrite pass iterating over a command stream.       *)
(* PackSpec  is the pass packer traversing a subgraph.                      *)
(* ApiSpec   is a call of npu_get_API_version for given version constants.  *)
(* SupSpec   is a call of is_operator_supported for a given operation.      *)
(***************************************************************************)
EXTENDS Integers, Sequences, FiniteSets, TLC

VARIABLES
    \* ---- lut.py ----
    arch,            \* arch.shram_lut_address, shram_lut_size, shram_reserved_unused_banks
    tensors,         \* LUT tensors: equivalence_id, storage shape, element size, address
    lut_index,       \* cmd.ps.primary_op.attrs["lut_index"], per pass (NoIndex = not set)
    hl_stream,       \* commands of sg.high_level_command_stream iterated so far
    cmd_stream,      \* local cmd_stream of optimize_high_level_cmd_stream
    lut_state,       \* lut_state.tensors (list of resident tensors)
    dropped,         \* positions of hl_stream whose DMA was not appended to cmd_stream
    lut_pc           \* "loop" while iterating, "done" after sg.high_level_command_stream is set,
                     \* "aborted" after a failed assertion

lut_vars == <<arch, tensors, lut_index, hl_stream, cmd_stream, lut_state, dropped, lut_pc>>

VARIABLES
    \* ---- pass_packing.py ----
    sg_ops,                 \* operations of the subgraph (sequence indexed by op id)
    sg_tensors,             \* tensors of the subgraph: producers (ops), consumer_list, purpose
    output_tensors,         \* sg.output_tensors
    visit_op_refcount,
    visit_tensor_refcount,
    startup_list,
    reverse_pass_list,
    startup_ps,             \* position of the startup pass in reverse_pass_list (0: not built)
    sg_passes,              \* sg.passes
    call_stack,             \* pending visit_tensor / visit_op calls, innermost first
    warnings,               \* ops reported by the wildcard row (line 315)
    pack_pc,                \* "traverse", "finish", "done" or "aborted"
    failed_assert           \* the assertion that aborted packing ("" if none)

pack_vars == <<sg_ops, sg_tensors, output_tensors, visit_op_refcount, visit_tensor_refcount, startup_list,
               reverse_pass_list, startup_ps, sg_passes, call_stack, warnings, pack_pc, failed_assert>>

VARIABLES
    \* ---- api.py ----
    API_version_major,      \* module constants of api.py (lines 28-30)
    API_version_minor,
    api_version,            \* the string f"{API_version_major}.{API_version_minor}"
    version,                \* the integer npu_get_API_version returns, as its binary digits
    api_pc                  \* "call" before, "returned" after npu_get_API_version

api_vars == <<API_version_major, API_version_minor, api_version, version, api_pc>>

VARIABLES
    \* ---- supported_operators.py ----
    sup_op,                 \* the operation handed to is_operator_supported
    sup_evaluated,          \* the constraints called so far, in the order of the calls
    sup_log,                \* the diagnostics printed so far
    sup_result,             \* the value returned (meaningful when sup_pc = "done")
    sup_pc                  \* "start", "constraints", "done" or "raised"

sup_vars == <<sup_op, sup_evaluated, sup_log, sup_result, sup_pc>>

VARIABLES
    \* ---- history of the LUT rewrite pass ----
    lut_addresses           \* per command of hl_stream: the address its LUT tensor had when
                            \* the command had been processed (empty for other commands)

hist_vars == <<lut_addresses>>

VARIABLES
    \* ---- supported_operators.py : constraint_resize step by step ----
    resize_ifm_shape,       \* op.ifm.shape
    resize_ofm_shape,       \* op.ofm.shape
    resize_align_corners,   \* op.attrs.get("align_corners", False)
    upscaled_shape,         \* the array of the while loop, <<>> before the loop
    resize_valid,           \* valid
    resize_pc               \* "start", "loop" or "done"

resize_vars == <<resize_ifm_shape, resize_ofm_shape, resize_align_corners, upscaled_shape,
                 resize_valid, resize_pc>>

vars == <<lut_vars, pack_vars, api_vars, sup_vars, hist_vars, resize_vars>>

(***************************************************************************)
(* Bounds                                                                  *)
(***************************************************************************)
MaxStream == 4      \* longest command stream explored
NumLutTensors == 3  \* LUT tensors (each owned by the pass of the same index)
NumEquivIds == 2    \* distinct equivalence ids
MaxOps == 3         \* operations in the input subgraph
MaxNotOnNpu == 1    \* operations of the input subgraph with run_on_npu = False

(***************************************************************************)
(* Program constants                                                       *)
(***************************************************************************)
slot_size == 256
ShramLutSize == 2048
AllocationQuantum == 16
NoIndex == -1
NoTensor == 0

LutTensors == 1..NumLutTensors
Passes == 0..NumLutTensors          \* pass 0 has ps.lut_tensor = None
ShramLutAddresses == {0, 30720}
ReservedUnusedBanks == {0, 2}
LutStorageElements == {256, 512}
LutElementSizes == {1, 4}

\* equivalence ids of the LUT tensors: tensors 1 and NumEquivIds+1 are equivalent
EquivIdOf(t) == ((t - 1) % NumEquivIds) + 1

\* ps.lut_tensor of a pass
PassLutTensor(p) == IF p = 0 THEN NoTensor ELSE p

(***************************************************************************)
(* numeric_util helpers                                                    *)
(***************************************************************************)
round_up(a, b) == ((a + b - 1) \div b) * b

overlaps(start1, end1, start2, end2) == start1 < end2 /\ end1 > start2

(***************************************************************************)
(* tensor.py                                                               *)
(***************************************************************************)
storage_size(tens) ==
    LET raw == tens.storage_elements * tens.element_size
        raw_size == IF raw = 0 THEN 1 ELSE raw
    IN  round_up(raw_size, tens.alignment)

equivalent(t1, t2) == t1.equivalence_id = t2.equivalence_id

(***************************************************************************)
(* lut.py : LUTState                                                       *)
(***************************************************************************)
\* the loop of lines 43-45 without the test of line 44
FirstEquivalent_untested(state, tens, lut_tens) == IF state = <<>> THEN NoTensor ELSE Head(state)

RECURSIVE FirstEquivalent(_, _, _)
FirstEquivalent(state, tens, lut_tens) ==
    IF state = <<>> THEN NoTensor
    ELSE IF equivalent(tens[Head(state)], tens[lut_tens]) THEN Head(state)
    ELSE FirstEquivalent(Tail(state), tens, lut_tens)

get_equivalent_never(state, tens, lut_tens) == NoTensor

get_equivalent(state, tens, lut_tens) == FirstEquivalent(state, tens, lut_tens)

\* the loop of lines 54-58 appending no tensor of the old state
KeepNonOverlapping_none(state, tens, start, end) == <<>>

RECURSIVE KeepNonOverlapping(_, _, _, _)
KeepNonOverlapping(state, tens, start, end) ==
    IF state = <<>> THEN <<>>
    ELSE LET t == Head(state)
             start2 == tens[t].address
             end2 == start2 + storage_size(tens[t])
             rest == KeepNonOverlapping(Tail(state), tens, start, end)
         IN  IF ~overlaps(start, end, start2, end2) THEN <<t>> \o rest ELSE rest

put_keep_all(state, tens, lut_tens) == <<lut_tens>> \o state

put(state, tens, lut_tens) ==
    LET start == tens[lut_tens].address
        end == start + storage_size(tens[lut_tens])
    IN  <<lut_tens>> \o KeepNonOverlapping(state, tens, start, end)

RECURSIVE NrOverlaps(_, _, _, _)
NrOverlaps(state, tens, addr, step) ==
    IF state = <<>> THEN 0
    ELSE LET start2 == tens[Head(state)].address
             end2 == start2 + storage_size(tens[Head(state)])
         IN  (IF overlaps(addr, addr + step, start2, end2) THEN 1 ELSE 0)
             + NrOverlaps(Tail(state), tens, addr, step)

\* the loop of lines 68-77 with "<=" in place of "<" at line 75
RECURSIVE BestAddressLoop_last_tie(_, _, _, _, _, _, _, _)
BestAddressLoop_last_tie(state, tens, addr, stop, incr, step, best_addr, best_nr_overlaps) ==
    IF addr >= stop THEN best_addr
    ELSE LET nr_overlaps == NrOverlaps(state, tens, addr, step)
         IN  IF nr_overlaps <= best_nr_overlaps
             THEN BestAddressLoop_last_tie(state, tens, addr + incr, stop, incr, step, addr, nr_overlaps)
             ELSE BestAddressLoop_last_tie(state, tens, addr + incr, stop, incr, step,
                                           best_addr, best_nr_overlaps)

\* the loop "for addr in range(start, stop, step)" carrying best_addr, best_nr_overlaps;
\* incr is the stride of the range, step the width of the candidate interval
RECURSIVE BestAddressLoop(_, _, _, _, _, _, _, _)
BestAddressLoop(state, tens, addr, stop, incr, step, best_addr, best_nr_overlaps) ==
    IF addr >= stop THEN best_addr
    ELSE LET nr_overlaps == NrOverlaps(state, tens, addr, step)
         IN  IF nr_overlaps < best_nr_overlaps
             THEN BestAddressLoop(state, tens, addr + incr, stop, incr, step, addr, nr_overlaps)
             ELSE BestAddressLoop(state, tens, addr + incr, stop, incr, step, best_addr, best_nr_overlaps)

find_best_address_slot_stride(state, tens, start, stop, step) ==
    BestAddressLoop(state, tens, start, stop, slot_size, step, start, stop)

find_best_address(state, tens, start, stop, step) ==
    BestAddressLoop(state, tens, start, stop, step, step, start, stop)

(***************************************************************************)
(* lut.py : get_lut_index                                                  *)
(***************************************************************************)
\* the outcome of a call that may fail an assertion: Raised, or the returned value
Raised == <<>>
Returns(x) == <<x>>

\* lines 82-85: the slot, unless assert 0 <= slot < 8 fails
get_lut_index(a, lut_tensor) ==
    LET slot == (lut_tensor.address - a.shram_lut_address) \div storage_size(lut_tensor)
    IN  IF 0 <= slot /\ slot < 8 THEN Returns(slot) ELSE Raised

(***************************************************************************)
(* Commands of a high level command stream                                 *)
(***************************************************************************)
DmaLutCmd(p) == [cmdtype |-> "DMA", ps |-> p, out_tensor |-> PassLutTensor(p), purpose |-> "LUT"]
DmaWeightsCmd == [cmdtype |-> "DMA", ps |-> 0, out_tensor |-> NoTensor, purpose |-> "Weights"]
NpuStripeCmd(p) == [cmdtype |-> "NpuStripe", ps |-> p, out_tensor |-> NoTensor, purpose |-> "None"]

Commands ==
    {DmaLutCmd(p) : p \in LutTensors} \cup {DmaWeightsCmd} \cup {NpuStripeCmd(p) : p \in Passes}

IsLutDma(cmd) == cmd.cmdtype = "DMA" /\ cmd.purpose = "LUT"

\* line 97: the command clobbers the LUT banks
stripe_resets_always(a, cmd) ==
    cmd.cmdtype = "NpuStripe" /\ a.shram_reserved_unused_banks = 0

StripeResets(a, cmd) ==
    /\ cmd.cmdtype = "NpuStripe"
    /\ PassLutTensor(cmd.ps) = NoTensor
    /\ a.shram_reserved_unused_banks = 0


(***************************************************************************)
(* pass_packing.py : operator sets and the packer table                    *)
(***************************************************************************)
npu_pre_ops == {"QuantizedResizeBilinear", "SplitSliceRead"}

mac_main_ops ==
    {"Conv2DBiasAct", "Conv2D", "QuantizedConv2D", "Conv2DBackpropInputSwitched",
     "DepthwiseConv2dBiasAct", "DepthwiseConv2dNative", "QuantizedDepthwiseConv2D",
     "QuantizedMatMul", "MatMul", "FullyConnectedAct",
     "BlockLSTM",
     "QuantizedMaxPool", "QuantizedAvgPool", "AvgPool", "MaxPool", "AvgPoolAct", "MaxPoolAct"}

binary_elem_wise_main_ops ==
    {"AddAct", "MulAct", "SubAct", "QuantizedAdd", "QuantizedSub", "QuantizedMul",
     "Mul", "Add", "Sub", "Minimum", "Maximum"}

unary_elem_wise_main_ops == {"LeakyRelu", "Abs"}

elem_wise_main_ops == binary_elem_wise_main_ops \cup unary_elem_wise_main_ops

activation_ops == {"QuantizedRelu", "QuantizedRelu1", "QuantizedRelu6", "Relu", "Relu6", "ReluN1To1"}

npu_post_ops ==
    activation_ops \cup
    {"Mul", "Add", "QuantizedBiasAdd", "Requantize", "QuantizedBatchNorm", "BiasAdd", "FusedBatchNorm"}

npu_post_fuse_limited_ops == {"ConcatSliceWrite", "Sigmoid", "Tanh"}

elem_wise_ops == elem_wise_main_ops \cup activation_ops \cup {"Sigmoid", "Tanh"}

quantization_ops == {"Dequantize", "QuantizeV2", "Max", "Min"}

cpu_ops ==
    {"Softmax", "QuantizedSoftmax", "LRN", "Shape", "QuantizedPad", "Pad", "AddN"} \cup quantization_ops

npu_dma_ops == {"DMA"}

startup_init_ops == {"Const", "VariableV2", "Placeholder", "SubgraphInput"}

memory_only_ops == {"Squeeze", "Reshape", "QuantizedReshape", "ExpandDims"}

PlacementFlags == {"Npu", "Cpu", "MemoryOnly", "StartupInit"}

Row(ops_set, wildcard, incompatible, to_set) ==
    [ops_set |-> ops_set, wildcard |-> wildcard, incompatible_pack_flags |-> incompatible,
     flags_to_set |-> to_set, flags_to_clear |-> {}]

test_sequence_memory_only_on_npu ==
    <<Row(npu_post_ops, FALSE, {"Cpu", "MemoryOnly", "Pre", "Main"}, {"Npu", "Post"}),
      Row(npu_post_fuse_limited_ops, FALSE, {"Cpu", "MemoryOnly", "Pre", "Main"},
          {"Npu", "PostFusingLimited"}),
      Row(mac_main_ops, FALSE,
          {"Cpu", "MemoryOnly", "ElementWise", "Pre", "Main", "PostFusingLimited"},
          {"Npu", "Mac", "Main"}),
      Row(elem_wise_main_ops, FALSE,
          {"Cpu", "MemoryOnly", "Mac", "Pre", "Main", "PostFusingLimited"},
          {"Npu", "ElementWise", "Main"}),
      Row(npu_pre_ops, FALSE, {"Cpu", "MemoryOnly"}, {"Npu", "Mac", "Pre", "ElementWise"}),
      Row(npu_dma_ops, FALSE, {"Cpu", "MemoryOnly"}, {"Npu", "Dma"}),
      Row(startup_init_ops, FALSE, {"Npu", "Cpu", "MemoryOnly"}, {"StartupInit", "Main"}),
      Row(memory_only_ops, FALSE, {"Cpu"}, {"MemoryOnly", "Main"}),
      Row(cpu_ops, FALSE, {"Npu", "MemoryOnly", "Main"}, {"Cpu", "Main"}),
      Row({}, TRUE, {"Npu", "MemoryOnly", "Main"}, {"Cpu", "Main"})>>

test_sequence ==
    <<Row(npu_post_ops, FALSE, {"Cpu", "MemoryOnly", "Pre", "Main"}, {"Npu", "Post"}),
      Row(npu_post_fuse_limited_ops, FALSE, {"Cpu", "MemoryOnly", "Pre", "Main"},
          {"Npu", "PostFusingLimited"}),
      Row(mac_main_ops, FALSE,
          {"Cpu", "MemoryOnly", "ElementWise", "Pre", "Main", "PostFusingLimited"},
          {"Npu", "Mac", "Main"}),
      Row(elem_wise_main_ops, FALSE,
          {"Cpu", "MemoryOnly", "Mac", "Pre", "Main", "PostFusingLimited"},
          {"Npu", "ElementWise", "Main"}),
      Row(npu_pre_ops, FALSE, {"Cpu", "MemoryOnly"}, {"Npu", "Mac", "Pre", "ElementWise"}),
      Row(npu_dma_ops, FALSE, {"Cpu", "MemoryOnly"}, {"Npu", "Dma"}),
      Row(startup_init_ops, FALSE, {"Npu", "Cpu", "MemoryOnly"}, {"StartupInit", "Main"}),
      Row(memory_only_ops, FALSE, {"Npu", "Cpu"}, {"MemoryOnly", "Main"}),
      Row(cpu_ops, FALSE, {"Npu", "MemoryOnly", "Main"}, {"Cpu", "Main"}),
      Row({}, TRUE, {"Npu", "MemoryOnly", "Main"}, {"Cpu", "Main"})>>

WildcardRow == 10
NoRow == 0
NoOp == 0
GraphConsumer == 0      \* the None entry update_consumers appends for subgraph outputs

\* lines 280-284: the row applies to curr_op under the flags accumulated so far
row_applies_without_npu_check(row, op, curr_flags) ==
    /\ row.wildcard \/ op.type \in row.ops_set
    /\ curr_flags \cap row.incompatible_pack_flags = {}

RowApplies(row, op, curr_flags) ==
    /\ row.wildcard \/ op.type \in row.ops_set
    /\ curr_flags \cap row.incompatible_pack_flags = {}
    /\ ~("Npu" \in row.flags_to_set /\ ~op.run_on_npu)

\* line 279 taken from the end of the table: the last row that applies
FirstRow_last(op, curr_flags) ==
    LET S == {r \in DOMAIN test_sequence : RowApplies(test_sequence[r], op, curr_flags)}
    IN  IF S = {} THEN NoRow ELSE CHOOSE r \in S : \A q \in S : r >= q

\* line 279: first row of test_sequence that applies, NoRow when the for loop
\* reaches its else branch
FirstRow(op, curr_flags) ==
    LET S == {r \in DOMAIN test_sequence : RowApplies(test_sequence[r], op, curr_flags)}
    IN  IF S = {} THEN NoRow ELSE CHOOSE r \in S : \A q \in S : r <= q


(***************************************************************************)
(* Sequence helpers                                                        *)
(***************************************************************************)
InSeq(x, s) == \E i \in DOMAIN s : s[i] = x

Reverse(s) == [i \in 1..Len(s) |-> s[Len(s) + 1 - i]]

CountIn(x, s) == Cardinality({i \in DOMAIN s : s[i] = x})

\* the elements of s in order of first occurrence
RECURSIVE FirstOccurrences(_, _)
FirstOccurrences(s, seen) ==
    IF s = <<>> THEN <<>>
    ELSE IF Head(s) \in seen THEN FirstOccurrences(Tail(s), seen)
    ELSE <<Head(s)>> \o FirstOccurrences(Tail(s), seen \cup {Head(s)})

RECURSIVE Repeat(_, _)
Repeat(x, n) == IF n = 0 THEN <<>> ELSE <<x>> \o Repeat(x, n - 1)

(***************************************************************************)
(* pass_packing.py : build_pass                                            *)
(***************************************************************************)
\* lines 318-327 without the loop over the outputs of next_op
CanPack_single_producer(gops, gtens, curr_op, inp) == Len(gtens[inp].ops) = 1

\* lines 318-327: the producer of inp may be fused into the pass of curr_op
CanPack(gops, gtens, curr_op, inp) ==
    /\ Len(gtens[inp].ops) = 1
    /\ LET next_op == gtens[inp].ops[1]
       IN  \A k \in DOMAIN gops[next_op].outputs :
               LET consumers == gtens[gops[next_op].outputs[k]].consumer_list
               IN  ~(Len(consumers) > 1 \/ (Len(consumers) = 1 /\ consumers[1] # curr_op))

\* lines 317-333: for inp in curr_op.inputs
RECURSIVE QueueInputs(_, _, _, _, _)
QueueInputs(gops, gtens, curr_op, inputs, acc) ==
    IF inputs = <<>> THEN acc
    ELSE LET inp == Head(inputs)
         IN  QueueInputs(gops, gtens, curr_op, Tail(inputs),
                IF CanPack(gops, gtens, curr_op, inp)
                THEN [acc EXCEPT !.to_process = Append(@, <<gtens[inp].ops[1], inp>>)]
                ELSE [acc EXCEPT !.input_set = @ \cup {inp}])

\* lines 314-315: the wildcard row reports the operation
warned_never(warned, row, curr_op) == warned

WarnedAfter(warned, row, curr_op) ==
    IF row.wildcard THEN Append(warned, curr_op) ELSE warned

\* lines 286-333: curr_op is added to the pass through row r
PackOp(gops, gtens, b, curr_op, t, r) ==
    LET op == gops[curr_op]
        row == test_sequence[r]
        new_block_type == op.npu_block_type
        sets_primary == new_block_type # "Default"
        takes_ifm == /\ "Npu" \in row.flags_to_set
                     /\ row.flags_to_set \cap {"Mac", "ElementWise", "Post", "PostFusingLimited"} # {}
        \* lines 302-305, read only when takes_ifm holds and the input exists
        new_ifm == IF op.type = "BlockLSTM" THEN op.inputs[4] ELSE op.inputs[1]
        q == QueueInputs(gops, gtens, curr_op, op.inputs,
                         [to_process |-> b.to_process, input_set |-> b.input_set])
    IN  IF sets_primary /\ b.npu_block_type # "Default"
        THEN [b EXCEPT !.failed = "npu_block_type == NpuBlockType.Default"]
        ELSE IF sets_primary /\ b.primary_op # NoOp
        THEN [b EXCEPT !.failed = "primary_op is None"]
        ELSE IF takes_ifm /\ Len(op.inputs) < 1
        THEN [b EXCEPT !.failed = "len(curr_op.inputs) >= 1"]
        ELSE IF takes_ifm /\ op.type = "BlockLSTM" /\ Len(op.inputs) < 4
        THEN [b EXCEPT !.failed = "IndexError: curr_op.inputs[3]"]
        ELSE IF takes_ifm /\ gtens[new_ifm].purpose # "FeatureMap"
        THEN [b EXCEPT !.failed = "ifm_tensor.purpose == TensorPurpose.FeatureMap"]
        ELSE [b EXCEPT
                !.reverse_ops_list = Append(@, curr_op),
                !.reverse_rows = Append(@, r),
                !.npu_block_type = IF sets_primary THEN new_block_type ELSE @,
                !.primary_op = IF sets_primary THEN curr_op ELSE @,
                !.curr_flags = (@ \ row.flags_to_clear) \cup row.flags_to_set,
                !.ifm_tensor = IF takes_ifm THEN new_ifm ELSE @,
                !.reverse_intermediates =
                    IF "Dma" \in row.flags_to_set /\ t # NoTensor THEN Append(@, t) ELSE @,
                !.warned = WarnedAfter(@, row, curr_op),
                !.to_process = q.to_process,
                !.input_set = q.input_set]

\* lines 273-340: while to_process
RECURSIVE BuildLoop(_, _, _)
BuildLoop(gops, gtens, b) ==
    IF b.failed # "" \/ b.to_process = <<>> THEN b
    ELSE LET curr_op == Head(b.to_process)[1]
             t == Head(b.to_process)[2]
             b1 == [b EXCEPT !.to_process = Tail(@)]
         IN  IF InSeq(curr_op, b.reverse_ops_list) THEN BuildLoop(gops, gtens, b1)
             ELSE LET r == FirstRow(gops[curr_op], b.curr_flags)
                  IN  IF r = NoRow
                      THEN IF t = NoTensor
                           THEN [b1 EXCEPT !.failed = "tens is not None"]
                           ELSE BuildLoop(gops, gtens, [b1 EXCEPT !.input_set = @ \cup {t}])
                      ELSE BuildLoop(gops, gtens, PackOp(gops, gtens, b1, curr_op, t, r))

\* lines 260-271
BuildStart(start_ops_to_process) ==
    [to_process |-> [i \in DOMAIN start_ops_to_process |-> <<start_ops_to_process[i], NoTensor>>],
     reverse_ops_list |-> <<>>,
     reverse_rows |-> <<>>,
     curr_flags |-> {},
     npu_block_type |-> "Default",
     reverse_intermediates |-> <<>>,
     input_set |-> {},
     ifm_tensor |-> NoTensor,
     primary_op |-> NoOp,
     warned |-> <<>>,
     failed |-> ""]

\* lines 342-345
elementwise_never_added(curr_flags) == curr_flags

AmbidextrousFlags(curr_flags) ==
    IF "Npu" \in curr_flags /\ curr_flags \cap {"ElementWise", "Mac"} = {}
    THEN curr_flags \cup {"ElementWise"}
    ELSE curr_flags

\* line 438: the pass holds a pre or post operation, so a 1x1 AvgPool is synthesized
NeedsPrimaryOp(gops, ops_list) ==
    \E i \in DOMAIN ops_list :
        gops[ops_list[i]].type \in (npu_pre_ops \cup npu_post_ops \cup npu_post_fuse_limited_ops)

\* operation.py, Operation.__init__: a new operation has no inputs, outputs, attributes or
\* pass, and is marked to run on the NPU
Operation(type, name) ==
    [type |-> type, name |-> name, run_on_npu |-> TRUE, npu_block_type |-> "Default",
     inputs |-> <<>>, outputs |-> <<>>, scheduled_pass |-> 0]

create_primary_op(gops, gtens, ops_list) ==
    LET op == ops_list[1]
        inp == gops[op].inputs[1]
        avgpool_id == Len(gops) + 1
        avgpool_out == Len(gtens) + 1
        avgpool_op == [Operation("AvgPool",
                                 [base |-> gops[op].name.base, suffix |-> "_avgpool"])
                          EXCEPT !.inputs = <<inp>>,
                                 !.npu_block_type = "Pooling",
                                 !.outputs = <<avgpool_out>>]
        gtens1 == Append([gtens EXCEPT ![inp].consumer_list = Append(@, avgpool_id)],
                         [ops |-> <<avgpool_id>>, consumer_list |-> <<op>>,
                          purpose |-> gtens[inp].purpose])
        gops1 == Append([gops EXCEPT ![op].inputs = [@ EXCEPT ![1] = avgpool_out]], avgpool_op)
    IN  [gops |-> gops1, gtens |-> gtens1, ops_list |-> <<avgpool_id>> \o ops_list,
         primary_op |-> avgpool_id]

\* all inputs of the ops of ops_list, in op order
RECURSIVE InputsOf(_, _)
InputsOf(gops, ops_list) ==
    IF ops_list = <<>> THEN <<>>
    ELSE gops[Head(ops_list)].inputs \o InputsOf(gops, Tail(ops_list))

\* lines 424-426 with one visit per input tensor
VisitsOf_once(ordered_input_list, pass_inputs) == ordered_input_list

\* lines 424-426: each pass input is visited once per use in the pass
RECURSIVE VisitsOf(_, _)
VisitsOf(ordered_input_list, pass_inputs) ==
    IF ordered_input_list = <<>> THEN <<>>
    ELSE Repeat(Head(ordered_input_list), CountIn(Head(ordered_input_list), pass_inputs))
         \o VisitsOf(Tail(ordered_input_list), pass_inputs)

\* lines 342-428: the pass is created from the result b of the while loop
FinishPass(gops, gtens, vtr, b, ofm_tensor, pass_index) ==
    LET curr_flags == AmbidextrousFlags(b.curr_flags)
        is_element_wise ==
            \A i \in DOMAIN b.reverse_ops_list :
                gops[b.reverse_ops_list[i]].type \in (elem_wise_ops \cup npu_dma_ops)
        placements == curr_flags \cap PlacementFlags
        ops_list0 == Reverse(b.reverse_ops_list)
        synth == b.primary_op = NoOp /\ NeedsPrimaryOp(gops, ops_list0)
        synth_ok == synth /\ Len(gops[ops_list0[1]].inputs) >= 1
        cp == IF synth_ok
              THEN create_primary_op(gops, gtens, ops_list0)
              ELSE [gops |-> gops, gtens |-> gtens, ops_list |-> ops_list0,
                    primary_op |-> b.primary_op]
        primary_op == cp.primary_op
        vtr1 == IF synth_ok
                THEN Append([vtr EXCEPT ![cp.gops[primary_op].inputs[1]] = @ + 1], 0)
                ELSE vtr
        npu_block_type == IF synth_ok THEN cp.gops[primary_op].npu_block_type ELSE b.npu_block_type
        input_set == IF synth_ok
                     THEN b.input_set \cup {cp.gops[primary_op].inputs[i] :
                                               i \in DOMAIN cp.gops[primary_op].inputs}
                     ELSE b.input_set
        ops_list == cp.ops_list
        pass_inputs == SelectSeq(InputsOf(cp.gops, ops_list), LAMBDA t : t \in input_set)
        ordered_input_list == FirstOccurrences(pass_inputs, {})
        non_dma_ops == SelectSeq(ops_list, LAMBDA o : cp.gops[o].type # "DMA")
        name == IF non_dma_ops # <<>> THEN cp.gops[non_dma_ops[1]].name
                ELSE cp.gops[ops_list[1]].name
        binary == primary_op # NoOp /\ cp.gops[primary_op].type \in binary_elem_wise_main_ops
        ps == [name |-> name,
               placement |-> IF Cardinality(placements) = 1
                             THEN CHOOSE f \in placements : TRUE ELSE "Unknown",
               flags |-> curr_flags,
               is_element_wise |-> is_element_wise,
               npu_block_type |-> npu_block_type,
               ops |-> ops_list,
               rows |-> (IF synth_ok THEN <<NoRow>> ELSE <<>>) \o Reverse(b.reverse_rows),
               primary_op |-> primary_op,
               inputs |-> ordered_input_list,
               intermediates |-> Reverse(b.reverse_intermediates),
               outputs |-> cp.gops[ops_list[Len(ops_list)]].outputs,
               ifm_tensor |-> IF binary /\ ordered_input_list # <<>>
                              THEN ordered_input_list[1] ELSE b.ifm_tensor,
               ifm2_tensor |-> IF binary /\ ordered_input_list # <<>>
                               THEN (IF Len(ordered_input_list) = 1 THEN ordered_input_list[1]
                                     ELSE ordered_input_list[2])
                               ELSE NoTensor,
               ofm_tensor |-> ofm_tensor]
        failed ==
            IF b.failed # "" THEN b.failed
            ELSE IF Cardinality(placements) > 1 THEN "placement == PassPlacement.Unknown"
            ELSE IF placements = {} THEN "placement != PassPlacement.Unknown"
            ELSE IF synth /\ ~synth_ok THEN "IndexError: op.inputs[0]"
            ELSE IF binary /\ ordered_input_list = <<>> THEN "IndexError: ps.inputs[0]"
            ELSE IF ps.placement = "Npu" /\ ofm_tensor = NoTensor
            THEN "ps.placement != PassPlacement.Npu or ps.ofm_tensor is not None"
            ELSE ""
    IN  [failed |-> failed,
         gops |-> [o \in DOMAIN cp.gops |->
                      IF InSeq(o, ops_list) THEN [cp.gops[o] EXCEPT !.scheduled_pass = pass_index]
                      ELSE cp.gops[o]],
         gtens |-> cp.gtens,
         vtr |-> vtr1,
         ps |-> ps,
         warned |-> b.warned,
         visits |-> VisitsOf(ordered_input_list, pass_inputs)]

build_pass(gops, gtens, vtr, start_ops_to_process, ofm_tensor, pass_index) ==
    LET b == BuildLoop(gops, gtens, BuildStart(start_ops_to_process))
    IN  IF b.failed # ""
        THEN [failed |-> b.failed, gops |-> gops, gtens |-> gtens, vtr |-> vtr, ps |-> <<>>,
              warned |-> b.warned, visits |-> <<>>]
        ELSE FinishPass(gops, gtens, vtr, b, ofm_tensor, pass_index)

(***************************************************************************)
(* Initial state of the rewrite pass                                       *)
(***************************************************************************)
LutInit ==
    /\ arch \in [shram_lut_address : ShramLutAddresses,
                 shram_lut_size : {ShramLutSize},
                 shram_reserved_unused_banks : ReservedUnusedBanks]
    /\ \E elems \in [1..NumEquivIds -> LutStorageElements],
          esize \in [1..NumEquivIds -> LutElementSizes] :
          tensors = [t \in LutTensors |->
                        [equivalence_id |-> EquivIdOf(t),
                         storage_elements |-> elems[EquivIdOf(t)],
                         element_size |-> esize[EquivIdOf(t)],
                         alignment |-> AllocationQuantum,
                         address |-> 0]]
    /\ lut_index = [p \in Passes |-> NoIndex]
    /\ hl_stream = <<>>
    /\ cmd_stream = <<>>
    /\ lut_state = <<>>
    /\ dropped = {}
    /\ lut_pc = "loop"

(***************************************************************************)
(* optimize_high_level_cmd_stream: one iteration of the for loop           *)
(***************************************************************************)
\* the loop body with line 102 skipped for every DMA command
LoopBody_drop_all_dma(cmd) ==
    /\ lut_pc = "loop"
    /\ Len(hl_stream) < MaxStream
    /\ hl_stream' = Append(hl_stream, cmd)
    /\ LET lut_start == arch.shram_lut_address
           lut_end == lut_start + arch.shram_lut_size
           state1 == IF StripeResets(arch, cmd) THEN <<>> ELSE lut_state
       IN  IF ~IsLutDma(cmd)
           THEN /\ cmd_stream' = IF cmd.cmdtype = "DMA" THEN cmd_stream
                                ELSE Append(cmd_stream, cmd)
                /\ lut_state' = state1
                /\ UNCHANGED <<tensors, lut_index, dropped, lut_pc>>
           ELSE LET lut_tens == cmd.out_tensor
                    existing_tens == get_equivalent(state1, tensors, lut_tens)
                IN  IF existing_tens # NoTensor
                    THEN \* LUT is already in SHRAM, no need to perform DMA
                         LET index == get_lut_index(arch, tensors[existing_tens])
                         IN  /\ tensors' = [tensors EXCEPT ![lut_tens].address = tensors[existing_tens].address]
                             /\ lut_state' = state1
                             /\ UNCHANGED cmd_stream
                             /\ IF index = Raised
                                THEN \* line 84: the assertion ends the pass
                                     /\ lut_pc' = "aborted"
                                     /\ UNCHANGED <<lut_index, dropped>>
                                ELSE /\ lut_index' = [lut_index EXCEPT ![cmd.ps] = index[1]]
                                     /\ dropped' = dropped \cup {Len(hl_stream) + 1}
                                     /\ UNCHANGED lut_pc
                    ELSE LET address == find_best_address(state1, tensors, lut_start, lut_end,
                                                          storage_size(tensors[lut_tens]))
                             tens1 == [tensors EXCEPT ![lut_tens].address = address]
                         IN  /\ tensors' = tens1
                             /\ lut_index' = [lut_index EXCEPT ![cmd.ps] = (address - lut_start) \div slot_size]
                             /\ lut_state' = put(state1, tens1, lut_tens)
                             /\ cmd_stream' = Append(cmd_stream, cmd)
                             /\ UNCHANGED <<dropped, lut_pc>>
    /\ UNCHANGED arch

LoopBody(cmd) ==
    /\ lut_pc = "loop"
    /\ Len(hl_stream) < MaxStream
    /\ hl_stream' = Append(hl_stream, cmd)
    /\ LET lut_start == arch.shram_lut_address
           lut_end == lut_start + arch.shram_lut_size
           state1 == IF StripeResets(arch, cmd) THEN <<>> ELSE lut_state
       IN  IF ~IsLutDma(cmd)
           THEN \* Non-LUT operation; leave untouched
                /\ cmd_stream' = Append(cmd_stream, cmd)
                /\ lut_state' = state1
                /\ UNCHANGED <<tensors, lut_index, dropped, lut_pc>>
           ELSE LET lut_tens == cmd.out_tensor
                    existing_tens == get_equivalent(state1, tensors, lut_tens)
                IN  IF existing_tens # NoTensor
                    THEN \* LUT is already in SHRAM, no need to perform DMA
                         LET index == get_lut_index(arch, tensors[existing_tens])
                         IN  /\ tensors' = [tensors EXCEPT ![lut_tens].address = tensors[existing_tens].address]
                             /\ lut_state' = state1
                             /\ UNCHANGED cmd_stream
                             /\ IF index = Raised
                                THEN \* line 84: the assertion ends the pass
                                     /\ lut_pc' = "aborted"
                                     /\ UNCHANGED <<lut_index, dropped>>
                                ELSE /\ lut_index' = [lut_index EXCEPT ![cmd.ps] = index[1]]
                                     /\ dropped' = dropped \cup {Len(hl_stream) + 1}
                                     /\ UNCHANGED lut_pc
                    ELSE LET address == find_best_address(state1, tensors, lut_start, lut_end,
                                                          storage_size(tensors[lut_tens]))
                             tens1 == [tensors EXCEPT ![lut_tens].address = address]
                         IN  /\ tensors' = tens1
                             /\ lut_index' = [lut_index EXCEPT ![cmd.ps] = (address - lut_start) \div slot_size]
                             /\ lut_state' = put(state1, tens1, lut_tens)
                             /\ cmd_stream' = Append(cmd_stream, cmd)
                             /\ UNCHANGED <<dropped, lut_pc>>
    /\ UNCHANGED arch

\* line 120: sg.high_level_command_stream = cmd_stream
EndOfStream ==
    /\ lut_pc = "loop"
    /\ lut_pc' = "done"
    /\ UNCHANGED <<arch, tensors, lut_index, hl_stream, cmd_stream, lut_state, dropped>>

LutNext == (\E cmd \in Commands : LoopBody(cmd)) \/ EndOfStream

\* the rewrite pass is not running
LutIdle ==
    /\ arch = [shram_lut_address |-> 0, shram_lut_size |-> ShramLutSize,
               shram_reserved_unused_banks |-> 0]
    /\ tensors = <<>>
    /\ lut_index = <<>>
    /\ hl_stream = <<>>
    /\ cmd_stream = <<>>
    /\ lut_state = <<>>
    /\ dropped = {}
    /\ lut_pc = "idle"

(***************************************************************************)
(* Input subgraphs of pack_into_passes                                     *)
(***************************************************************************)
\* op types with run_on_npu = True / False in the explored graphs
OnNpuTypes == {"Relu", "Add", "Tanh", "Conv2D", "AddAct", "SplitSliceRead", "DMA", "Reshape"}
NotOnNpuTypes == {"Relu", "Conv2D", "Reshape", "Softmax", "CustomOp", "Const"}

OpVariants ==
    {[type |-> ty, run_on_npu |-> TRUE] : ty \in OnNpuTypes}
    \cup {[type |-> ty, run_on_npu |-> FALSE] : ty \in NotOnNpuTypes}

\* op.attrs["npu_block_type"] as the graph optimiser marks the main operations
NpuBlockTypeOf(type) ==
    IF type \in mac_main_ops THEN "ConvolutionMxN"
    ELSE IF type \in (elem_wise_main_ops \ npu_post_ops) THEN "ElementWise"
    ELSE "Default"

\* input tensors of op i: tensor 1 has no producer, tensor j+1 is the output of op j
InputShapes == {"unary", "binary"}
InputsFor(i, type, shape) ==
    IF type \in startup_init_ops THEN <<>>
    ELSE IF shape = "unary" THEN <<i>>
    ELSE <<i - 1, i>>

\* consumer_list as update_consumers builds it: one entry per use as an input
RECURSIVE ConsumersOf(_, _, _)
ConsumersOf(gops, t, o) ==
    IF o > Len(gops) THEN <<>>
    ELSE Repeat(o, CountIn(t, gops[o].inputs)) \o ConsumersOf(gops, t, o + 1)

MakeOps(n, kind, shape) ==
    [i \in 1..n |->
        [type |-> kind[i].type,
         name |-> [base |-> i, suffix |-> ""],
         run_on_npu |-> kind[i].run_on_npu,
         npu_block_type |-> NpuBlockTypeOf(kind[i].type),
         inputs |-> InputsFor(i, kind[i].type, shape[i]),
         outputs |-> <<i + 1>>,
         scheduled_pass |-> 0]]

MakeTensors(gops) ==
    [t \in 1..(Len(gops) + 1) |->
        LET users == ConsumersOf(gops, t, 1)
        IN  [ops |-> IF t = 1 THEN <<>> ELSE <<t - 1>>,
             consumer_list |-> IF users = <<>> /\ t > 1 THEN <<GraphConsumer>> ELSE users,
             \* the tensors of the explored graphs are feature maps
             purpose |-> "FeatureMap"]]

PackInit ==
    /\ \E n \in 1..MaxOps :
        \E kind \in [1..n -> OpVariants], shape \in [1..n -> InputShapes] :
            /\ \A i \in 1..n : (i = 1 \/ kind[i].type \in startup_init_ops) => shape[i] = "unary"
            /\ Cardinality({i \in 1..n : ~kind[i].run_on_npu
                                         /\ kind[i].type \notin startup_init_ops}) <= MaxNotOnNpu
            /\ sg_ops = MakeOps(n, kind, shape)
            /\ sg_tensors = MakeTensors(MakeOps(n, kind, shape))
    /\ output_tensors = SelectSeq([t \in 1..Len(sg_tensors) |-> t],
                                  LAMBDA t : sg_tensors[t].consumer_list = <<GraphConsumer>>)
    /\ visit_op_refcount = [o \in 1..Len(sg_ops) |-> 0]
    /\ visit_tensor_refcount = [t \in 1..Len(sg_tensors) |-> 0]
    /\ startup_list = <<>>
    /\ reverse_pass_list = <<>>
    /\ startup_ps = 0
    /\ sg_passes = <<>>
    \* lines 475-476: for tens in sg.output_tensors: visit_tensor(tens)
    /\ call_stack = [i \in DOMAIN output_tensors |-> [kind |-> "tensor", id |-> output_tensors[i]]]
    /\ warnings = <<>>
    /\ pack_pc = "traverse"
    /\ failed_assert = ""

PackIdle ==
    /\ sg_ops = <<>>
    /\ sg_tensors = <<>>
    /\ output_tensors = <<>>
    /\ visit_op_refcount = <<>>
    /\ visit_tensor_refcount = <<>>
    /\ startup_list = <<>>
    /\ reverse_pass_list = <<>>
    /\ startup_ps = 0
    /\ sg_passes = <<>>
    /\ call_stack = <<>>
    /\ warnings = <<>>
    /\ pack_pc = "idle"
    /\ failed_assert = ""

(***************************************************************************)
(* pack_into_passes : visit_tensor, visit_op and the end of the traversal  *)
(***************************************************************************)
Abort(reason) ==
    /\ pack_pc' = "aborted"
    /\ failed_assert' = reason

\* lines 430-435 with the producers visited at the first visit of the tensor
visit_tensor_eager ==
    /\ pack_pc \in {"traverse", "finish"}
    /\ call_stack # <<>>
    /\ Head(call_stack).kind = "tensor"
    /\ LET t == Head(call_stack).id
           count == visit_tensor_refcount[t] + 1
           nconsumers == Len(sg_tensors[t].consumer_list)
       IN  /\ visit_tensor_refcount' = [visit_tensor_refcount EXCEPT ![t] = count]
           /\ IF count > nconsumers
              THEN /\ Abort("visit_tensor_refcount[tens] <= len(tens.consumers())")
                   /\ UNCHANGED call_stack
              ELSE /\ call_stack' =
                        (IF count = 1
                         THEN [i \in DOMAIN sg_tensors[t].ops |->
                                  [kind |-> "op", id |-> Reverse(sg_tensors[t].ops)[i]]]
                         ELSE <<>>) \o Tail(call_stack)
                   /\ UNCHANGED <<pack_pc, failed_assert>>
    /\ UNCHANGED <<sg_ops, sg_tensors, output_tensors, visit_op_refcount, startup_list,
                   reverse_pass_list, startup_ps, sg_passes, warnings>>

\* lines 430-435
visit_tensor ==
    /\ pack_pc \in {"traverse", "finish"}
    /\ call_stack # <<>>
    /\ Head(call_stack).kind = "tensor"
    /\ LET t == Head(call_stack).id
           count == visit_tensor_refcount[t] + 1
           nconsumers == Len(sg_tensors[t].consumer_list)
       IN  /\ visit_tensor_refcount' = [visit_tensor_refcount EXCEPT ![t] = count]
           /\ IF count > nconsumers
              THEN /\ Abort("visit_tensor_refcount[tens] <= len(tens.consumers())")
                   /\ UNCHANGED call_stack
              ELSE /\ call_stack' =
                        (IF count = nconsumers
                         THEN [i \in DOMAIN sg_tensors[t].ops |->
                                  [kind |-> "op", id |-> Reverse(sg_tensors[t].ops)[i]]]
                         ELSE <<>>) \o Tail(call_stack)
                   /\ UNCHANGED <<pack_pc, failed_assert>>
    /\ UNCHANGED <<sg_ops, sg_tensors, output_tensors, visit_op_refcount, startup_list,
                   reverse_pass_list, startup_ps, sg_passes, warnings>>

\* lines 240-257, with the call of build_pass (lines 259-428) for a ready operation
visit_op ==
    /\ pack_pc \in {"traverse", "finish"}
    /\ call_stack # <<>>
    /\ Head(call_stack).kind = "op"
    /\ LET o == Head(call_stack).id
           op == sg_ops[o]
           first == visit_op_refcount[o] + 1
           unused == Cardinality({k \in DOMAIN op.outputs :
                                     Len(sg_tensors[op.outputs[k]].consumer_list) = 0})
           count == IF first = 1 THEN first + unused ELSE first
           vor == [visit_op_refcount EXCEPT ![o] = count]
       IN  IF count > Len(op.outputs)
           THEN /\ Abort("visit_op_refcount[op] <= len(op.outputs)")
                /\ visit_op_refcount' = vor
                /\ UNCHANGED <<sg_ops, sg_tensors, visit_tensor_refcount, startup_list,
                               reverse_pass_list, call_stack, warnings>>
           ELSE IF count < Len(op.outputs)
           THEN /\ visit_op_refcount' = vor
                /\ call_stack' = Tail(call_stack)
                /\ UNCHANGED <<sg_ops, sg_tensors, visit_tensor_refcount, startup_list,
                               reverse_pass_list, warnings, pack_pc, failed_assert>>
           ELSE IF op.type \in startup_init_ops
           THEN /\ visit_op_refcount' = vor
                /\ startup_list' = Append(startup_list, o)
                /\ call_stack' = Tail(call_stack)
                /\ UNCHANGED <<sg_ops, sg_tensors, visit_tensor_refcount, reverse_pass_list,
                               warnings, pack_pc, failed_assert>>
           ELSE LET res == build_pass(sg_ops, sg_tensors, visit_tensor_refcount, <<o>>,
                                      op.outputs[1], Len(reverse_pass_list) + 1)
                IN  IF res.failed # ""
                    THEN /\ Abort(res.failed)
                         /\ visit_op_refcount' = vor
                         /\ warnings' = warnings \o res.warned
                         /\ UNCHANGED <<sg_ops, sg_tensors, visit_tensor_refcount, startup_list,
                                        reverse_pass_list, call_stack>>
                    ELSE /\ sg_ops' = res.gops
                         /\ sg_tensors' = res.gtens
                         /\ visit_tensor_refcount' = res.vtr
                         /\ visit_op_refcount' =
                               IF Len(res.gops) > Len(sg_ops) THEN Append(vor, 0) ELSE vor
                         /\ reverse_pass_list' = Append(reverse_pass_list, res.ps)
                         /\ warnings' = warnings \o res.warned
                         /\ call_stack' =
                               [i \in DOMAIN res.visits |-> [kind |-> "tensor", id |-> res.visits[i]]]
                               \o Tail(call_stack)
                         /\ UNCHANGED <<startup_list, pack_pc, failed_assert>>
    /\ UNCHANGED <<output_tensors, startup_ps, sg_passes>>

\* lines 478-479: the startup pass, built when the traversal has returned; the visits that
\* build_pass makes for the inputs of the pass (lines 424-426) run before line 480
build_startup_pass ==
    /\ pack_pc = "traverse"
    /\ call_stack = <<>>
    /\ IF startup_list = <<>>
       THEN /\ pack_pc' = "finish"
            /\ UNCHANGED <<sg_ops, sg_tensors, visit_op_refcount, visit_tensor_refcount,
                           reverse_pass_list, startup_ps, call_stack, warnings, failed_assert>>
       ELSE LET res == build_pass(sg_ops, sg_tensors, visit_tensor_refcount, startup_list,
                                  NoTensor, Len(reverse_pass_list) + 1)
            IN  IF res.failed # ""
                THEN /\ Abort(res.failed)
                     /\ warnings' = warnings \o res.warned
                     /\ UNCHANGED <<sg_ops, sg_tensors, visit_op_refcount, visit_tensor_refcount,
                                    reverse_pass_list, startup_ps, call_stack>>
                ELSE /\ sg_ops' = res.gops
                     /\ sg_tensors' = res.gtens
                     /\ visit_tensor_refcount' = res.vtr
                     /\ visit_op_refcount' =
                           IF Len(res.gops) > Len(sg_ops) THEN Append(visit_op_refcount, 0)
                           ELSE visit_op_refcount
                     /\ reverse_pass_list' = Append(reverse_pass_list, res.ps)
                     /\ startup_ps' = Len(reverse_pass_list) + 1
                     /\ warnings' = warnings \o res.warned
                     /\ call_stack' =
                           [i \in DOMAIN res.visits |-> [kind |-> "tensor", id |-> res.visits[i]]]
                     /\ pack_pc' = "finish"
                     /\ UNCHANGED failed_assert
    /\ UNCHANGED <<output_tensors, startup_list, sg_passes>>

\* lines 480-481: the outputs and the name of the startup pass, set when build_pass has
\* returned, from the startup_list of that moment
FixupStartupPass(passes) ==
    IF startup_ps = 0 THEN passes
    ELSE [passes EXCEPT
             ![startup_ps] =
                 [@ EXCEPT !.outputs = [i \in DOMAIN startup_list |->
                                           sg_ops[startup_list[i]].outputs[1]],
                           !.name = [base |-> 0, suffix |-> "startup_weight_initialisation"]]]

\* lines 480-483 without the reversal: sg.passes = list(reverse_pass_list)
finish_packing_unreversed ==
    /\ pack_pc = "finish"
    /\ call_stack = <<>>
    /\ reverse_pass_list' = FixupStartupPass(reverse_pass_list)
    /\ sg_passes' = FixupStartupPass(reverse_pass_list)
    /\ pack_pc' = "done"
    /\ UNCHANGED <<sg_ops, sg_tensors, output_tensors, visit_op_refcount, visit_tensor_refcount,
                   startup_list, startup_ps, call_stack, warnings, failed_assert>>

\* lines 480-483: the fixup of the startup pass, then
\* sg.passes = list(reversed(reverse_pass_list))
finish_packing ==
    /\ pack_pc = "finish"
    /\ call_stack = <<>>
    /\ reverse_pass_list' = FixupStartupPass(reverse_pass_list)
    /\ sg_passes' = Reverse(FixupStartupPass(reverse_pass_list))
    /\ pack_pc' = "done"
    /\ UNCHANGED <<sg_ops, sg_tensors, output_tensors, visit_op_refcount, visit_tensor_refcount,
                   startup_list, startup_ps, call_stack, warnings, failed_assert>>

PackNext == visit_tensor \/ visit_op \/ build_startup_pass \/ finish_packing

(***************************************************************************)
(* api.py : unbounded integers as binary digits, least significant first   *)
(***************************************************************************)
\* Python integers have no width; a non-negative integer is kept as the sequence of its
\* binary digits without leading zeros, so that major << 16 is exact for every major
RECURSIVE ToBits(_)
ToBits(n) == IF n = 0 THEN <<>> ELSE <<n % 2>> \o ToBits(n \div 2)

RECURSIVE FromBits(_)
FromBits(b) == IF b = <<>> THEN 0 ELSE Head(b) + 2 * FromBits(Tail(b))

\* drops the zero digits at the most significant end
RECURSIVE Normalized(_)
Normalized(b) ==
    IF b = <<>> THEN <<>>
    ELSE IF b[Len(b)] = 0 THEN Normalized(SubSeq(b, 1, Len(b) - 1))
    ELSE b

BitAt(b, i) == IF i <= Len(b) THEN b[i] ELSE 0

\* x << n
BitShiftLeft(b, n) == IF b = <<>> THEN <<>> ELSE Repeat(0, n) \o b

\* x >> n
BitShiftRight(b, n) == IF Len(b) <= n THEN <<>> ELSE SubSeq(b, n + 1, Len(b))

\* x | y
BitOr(a, b) ==
    LET n == IF Len(a) >= Len(b) THEN Len(a) ELSE Len(b)
    IN  Normalized([i \in 1..n |-> IF BitAt(a, i) = 1 \/ BitAt(b, i) = 1 THEN 1 ELSE 0])

\* x & y
BitAnd(a, b) ==
    LET n == IF Len(a) <= Len(b) THEN Len(a) ELSE Len(b)
    IN  Normalized([i \in 1..n |-> IF BitAt(a, i) = 1 /\ BitAt(b, i) = 1 THEN 1 ELSE 0])

\* the decimal digits of str(n), as f"{n}" formats a non-negative integer
DecimalDigits == <<"0", "1", "2", "3", "4", "5", "6", "7", "8", "9">>

RECURSIVE FormatInt(_)
FormatInt(n) ==
    IF n < 10 THEN <<DecimalDigits[n + 1]>>
    ELSE FormatInt(n \div 10) \o <<DecimalDigits[(n % 10) + 1]>>

\* line 30: api_version = f"{API_version_major}.{API_version_minor}"
FormatVersion(major, minor) == FormatInt(major) \o <<".">> \o FormatInt(minor)

\* line 397 with the minor version shifted in unmasked above the major version
get_API_version_swapped(major, minor) ==
    BitOr(BitShiftLeft(ToBits(minor), 16), BitAnd(ToBits(major), ToBits(65535)))

\* line 397: (API_version_major << 16) | (API_version_minor & 0xFFFF)
get_API_version(major, minor) ==
    BitOr(BitShiftLeft(ToBits(major), 16), BitAnd(ToBits(minor), ToBits(65535)))

\* version constants explored: the repository's 1.0 and the ends of the 16-bit range
VersionNumbers == {0, 1, 2, 9, 10, 255, 256, 32767, 32768, 65535}

ApiInit ==
    /\ API_version_major \in VersionNumbers
    /\ API_version_minor \in VersionNumbers
    /\ api_version = FormatVersion(API_version_major, API_version_minor)
    /\ version = <<>>
    /\ api_pc = "call"

ApiIdle ==
    /\ API_version_major = 1
    /\ API_version_minor = 0
    /\ api_version = FormatVersion(1, 0)
    /\ version = <<>>
    /\ api_pc = "idle"

\* lines 391-398
npu_get_API_version ==
    /\ api_pc = "call"
    /\ version' = get_API_version(API_version_major, API_version_minor)
    /\ api_pc' = "returned"
    /\ UNCHANGED <<API_version_major, API_version_minor, api_version>>

ApiNext == npu_get_API_version

(***************************************************************************)
(* supported_operators.py : operator sets and allowed values               *)
(***************************************************************************)
\* Op.op_set(Op.is_maxpool_op), Op.is_avgpool_op, Op.is_unary_elementwise_op, Op.is_relu_op
max_pooling_ops == {"QuantizedMaxPool", "MaxPool"}
avg_pooling_ops == {"QuantizedAvgPool", "AvgPool"}
relu_ops == {"Relu", "Relu6", "ReluN1To1"}

\* lines 52-113; the sets pass_packing.py also names carry the class name
SupportedOperators_npu_pre_ops == {"SplitSliceRead"}
convolution_ops == {"Conv2DBias", "Conv2D", "QuantizedConv2D"}
depthwise_convolution_ops == {"DepthwiseConv2DBias"}
transpose_convolution_ops == {"Conv2DBackpropInput"}
convolution_like_ops == convolution_ops \cup depthwise_convolution_ops \cup transpose_convolution_ops
pooling_ops == {"ReduceSum"} \cup max_pooling_ops \cup avg_pooling_ops
resizing_ops == {"ResizeBilinear"}
fc_vector_products == {"QuantizedMatMul", "MatMul", "FullyConnected"}
SupportedOperators_mac_main_ops ==
    {"BlockLSTM"} \cup convolution_like_ops \cup pooling_ops \cup resizing_ops \cup fc_vector_products
SupportedOperators_unary_elem_wise_main_ops == {"Abs", "LeakyRelu", "CLZ"}
binary_elem_wise_min_max_ops == {"Minimum", "Maximum"}
binary_elem_wise_shift_ops == {"SHL", "SHR"}
binary_elem_wise_add_mul_sub == {"Add", "Mul", "Sub"}
SupportedOperators_binary_elem_wise_main_ops ==
    binary_elem_wise_min_max_ops \cup binary_elem_wise_add_mul_sub \cup binary_elem_wise_shift_ops
SupportedOperators_elem_wise_main_ops ==
    SupportedOperators_binary_elem_wise_main_ops \cup SupportedOperators_unary_elem_wise_main_ops
supported_int32_tensor_ops ==
    {"ReduceSum", "CLZ"} \cup binary_elem_wise_add_mul_sub \cup binary_elem_wise_shift_ops
SupportedOperators_activation_ops == relu_ops \cup {"Tanh", "Sigmoid", "Softmax"}
SupportedOperators_npu_post_ops ==
    SupportedOperators_activation_ops \cup {"ConcatSliceWrite"} \cup {"Quantize"}
split_ops == {"Split", "SplitV", "StridedSlice", "Slice", "UnpackReshaped", "Unpack"}
concat_ops == {"Concat", "ConcatTFLite", "PackReshaped", "Pack"}
SupportedOperators_memory_only_ops ==
    {"Squeeze", "Reshape", "QuantizedReshape"} \cup concat_ops \cup split_ops
shapeless_input_ops == SupportedOperators_binary_elem_wise_main_ops \cup {"Split", "SplitV"}
per_axis_quant_ops == convolution_like_ops
supported_fused_activations == relu_ops \cup {"Tanh", "Sigmoid", "LUT"}
supported_operators ==
    SupportedOperators_npu_pre_ops \cup SupportedOperators_mac_main_ops
    \cup SupportedOperators_elem_wise_main_ops \cup SupportedOperators_npu_post_ops
    \cup SupportedOperators_memory_only_ops
supported_op_dtypes == {"uint8", "int8", "int16", "int32"}
supported_bias_dtypes == {"int32", "int64"}
tens_dim_range == <<1, 65535>>

\* data_type.py: the base type and the size in bytes of the data types used
SignedTypes == {"int8", "int16", "int32", "int64"}
UnsignedTypes == {"uint8"}
size_in_bytes(dtype) ==
    CASE dtype \in {"uint8", "int8"} -> 1
      [] dtype = "int16" -> 2
      [] dtype \in {"int32", "float32"} -> 4
      [] dtype = "int64" -> 8

(***************************************************************************)
(* Operations and tensors as the legality checker reads them               *)
(***************************************************************************)
\* An optional value (None or a value) is a sequence of length zero or one.
None == <<>>
Some(x) == <<x>>

\* tens.shape is None or a list whose elements are integers or None: the shape and each
\* of its dimensions are optional values
Shape(dims) == Some([i \in DOMAIN dims |-> Some(dims[i])])

\* the dimensions of a shape that is a list of integers
Dims(shp) == [i \in DOMAIN shp[1] |-> shp[1][i][1]]

\* operation.py: positions (from 1) of the IFMs, the weights and the bias in op.inputs
TensorIndices(type) ==
    CASE type \in SupportedOperators_binary_elem_wise_main_ops ->
             [ifms |-> <<1, 2>>, weights |-> <<>>, biases |-> <<>>]
      [] type \in {"FullyConnected", "Conv2DBias"} ->
             [ifms |-> <<1>>, weights |-> <<2>>, biases |-> <<3>>]
      [] type \in {"Concat", "ConcatTFLite"} ->
             [ifms |-> <<2, 3>>, weights |-> <<>>, biases |-> <<>>]
      [] type \in SupportedOperators_unary_elem_wise_main_ops
                  \cup {"ResizeBilinear", "Reshape"} \cup relu_ops ->
             [ifms |-> <<1>>, weights |-> <<>>, biases |-> <<>>]
      [] OTHER -> [ifms |-> <<>>, weights |-> <<>>, biases |-> <<>>]

\* Operation.get_input: None when the index list or op.inputs is too short
get_input(op, indices, ix) ==
    IF ix > Len(indices) THEN None
    ELSE IF indices[ix] > Len(op.inputs) THEN None
    ELSE Some(op.inputs[indices[ix]])

op_ifm(op) == get_input(op, TensorIndices(op.type).ifms, 1)
op_ifm2(op) == get_input(op, TensorIndices(op.type).ifms, 2)
op_weights(op) == get_input(op, TensorIndices(op.type).weights, 1)
op_bias(op) == get_input(op, TensorIndices(op.type).biases, 1)
op_ofm(op) == IF op.outputs = <<>> THEN None ELSE Some(op.outputs[1])

\* [tens for tens in op.get_ifm_ifm2_weights_ofm() if tens]
get_ifm_ifm2_weights_ofm(op) == op_ifm(op) \o op_ifm2(op) \o op_weights(op) \o op_ofm(op)

\* the tensors lines 333-335 (and 348-350, 365-367) check: inputs when the op has no IFM/OFM
CheckedTensors(op) ==
    IF get_ifm_ifm2_weights_ofm(op) # <<>> THEN get_ifm_ifm2_weights_ofm(op) ELSE op.inputs

AllOf(s, P(_)) == \A i \in DOMAIN s : P(s[i])

(***************************************************************************)
(* 64-bit bias values: a sign and the binary digits of the magnitude       *)
(***************************************************************************)
\* magnitudes above 2^31 are kept as binary digits, least significant first, no leading zeros
Pow2(k) == Repeat(0, k) \o <<1>>
Pow2Minus1(k) == Repeat(1, k)
BigInt(neg, bits) == [neg |-> neg, bits |-> bits]

\* bin(x): "-" for a negative x, "0b", then the binary digits, most significant first
bin(x) ==
    (IF x.neg THEN <<"-">> ELSE <<>>) \o <<"0", "b">>
    \o (IF x.bits = <<>> THEN <<"0">>
        ELSE [i \in 1..Len(x.bits) |-> IF x.bits[Len(x.bits) + 1 - i] = 1 THEN "1" ELSE "0"])

\* s[2:]
DropTwo(s) == IF Len(s) <= 2 THEN <<>> ELSE SubSeq(s, 3, Len(s))

\* x lies in [-2^39, 2^39 - 1], the range of a 40-bit two's complement field
FitsSigned40(x) ==
    IF x.neg THEN Len(x.bits) <= 39 \/ x.bits = Pow2(39)
    ELSE Len(x.bits) <= 39

(***************************************************************************)
(* supported_operators.py : the constraints (each returns "valid")         *)
(***************************************************************************)
\* lines 270-280
constraint_tens_no_dynamic(op) ==
    AllOf(op.inputs \o op.outputs, LAMBDA tens : ~(tens.shape = Shape(<<>>) /\ ~tens.values))

\* lines 283-292 and tensor.py lines 119-125
shape_fully_defined(shp) ==
    IF shp = None THEN FALSE
    ELSE \A i \in DOMAIN shp[1] : shp[1][i] # None

constraint_tens_defined_shape(op) ==
    AllOf(op.inputs \o op.outputs, LAMBDA tens : shape_fully_defined(tens.shape))

\* lines 295-299
constraint_tens_output_scalar(op) == op_ofm(op)[1].shape # Shape(<<>>)

\* lines 303-313
constraint_tens_input_scalar(op) ==
    AllOf(op.inputs, LAMBDA tens : ~(tens.shape = Shape(<<>>) /\ op.type \notin shapeless_input_ops))

\* lines 316-325
constraint_tens_shape_size(op) ==
    AllOf(op.inputs \o op.outputs, LAMBDA tens : Len(tens.shape[1]) <= 4)

\* lines 329-340 with the test of line 337 left out
constraint_tens_dtype_unchecked(op) == TRUE

\* lines 329-340
constraint_tens_dtype(op) ==
    AllOf(CheckedTensors(op), LAMBDA tens : tens.dtype \in supported_op_dtypes)

\* lines 344-356
constraint_tens_int32_ops(op) ==
    AllOf(CheckedTensors(op),
          LAMBDA tens : ~(tens.dtype = "int32" /\ op.type \notin supported_int32_tensor_ops))

\* line 369: tens_min <= dim <= tens_max, for a dimension that is an integer
InDimRange(dim) ==
    dim # None /\ tens_dim_range[1] <= dim[1] /\ dim[1] <= tens_dim_range[2]

\* lines 360-372
constraint_tens_dimension(op) ==
    AllOf(CheckedTensors(op),
          LAMBDA tens : \A i \in DOMAIN tens.shape[1] : InDimRange(tens.shape[1][i]))

\* lines 375-385
constraint_tens_quant_none_check(op) ==
    AllOf(get_ifm_ifm2_weights_ofm(op), LAMBDA tens : tens.quantization # None)

\* lines 388-397
constraint_tens_quant_scale(op) ==
    AllOf(get_ifm_ifm2_weights_ofm(op), LAMBDA tens : tens.quantization[1].scale_f32 # "inf")

\* lines 401-411
constraint_tens_quant_per_axis(op) ==
    op.type \notin per_axis_quant_ops =>
        AllOf(get_ifm_ifm2_weights_ofm(op), LAMBDA tens : ~tens.quantization[1].per_axis)

\* lines 415-423
constraint_faf(op) ==
    IF op.activation = None THEN TRUE
    ELSE op.activation[1] \in supported_fused_activations

\* lines 476-480
constraint_weights_type(op) == size_in_bytes(op_weights(op)[1].dtype) = 1

\* lines 483-487
constraint_weights_const(op) == op_weights(op)[1].values

\* lines 501-507
constraint_bias_type(op) ==
    IF op_bias(op) # None THEN op_bias(op)[1].dtype \in supported_bias_dtypes
    ELSE TRUE

\* lines 510-516
constraint_bias_40bit(op) ==
    IF op_bias(op) # None /\ op_bias(op)[1].dtype = "int64" /\ op_bias(op)[1].quant_values # None
    THEN AllOf(op_bias(op)[1].quant_values[1],
               LAMBDA quant_value : Len(DropTwo(bin(quant_value))) <= 40)
    ELSE TRUE

\* lines 590-595
constraint_matching_in_out_types(op) == op_ifm(op)[1].dtype = op_ofm(op)[1].dtype

\* the while loop of lines 676-683 on upscaled_shape = (h, w) and out_shape = (out_h, out_w)
RECURSIVE UpscaleLoop(_, _, _, _, _)
UpscaleLoop(h, w, out_h, out_w, align_corners) ==
    IF ~(h < out_h /\ w < out_w) THEN FALSE
    ELSE LET h2 == IF align_corners THEN h * 2 - 1 ELSE h * 2
             w2 == IF align_corners THEN w * 2 - 1 ELSE w * 2
         IN  IF out_h = h2 /\ out_w = w2 THEN TRUE
             ELSE UpscaleLoop(h2, w2, out_h, out_w, align_corners)

\* lines 659-685; an OFM of rank 2 gives an out_shape of one element, which both elements
\* of upscaled_shape are compared with and which never equals upscaled_shape
constraint_resize(op) ==
    LET ifm_shape == op_ifm(op)[1].shape
        ofm_shape == op_ofm(op)[1].shape
        align_corners == op.attrs.align_corners
    IN  IF Len(ifm_shape[1]) = 4
        THEN IF (ifm_shape[1][2] = Some(1) /\ ifm_shape[1][3] = Some(1)) \/ ifm_shape = ofm_shape
             THEN TRUE
             ELSE IF Len(ofm_shape[1]) = 2 THEN FALSE
             ELSE UpscaleLoop(ifm_shape[1][2][1], ifm_shape[1][3][1],
                              ofm_shape[1][2][1], ofm_shape[1][3][1], align_corners)
        ELSE FALSE

\* lines 703-707
constraint_axis_exists(op) == op.attrs.axis # None

\* axis += dims if axis < 0 else 0  (lines 714 and 741)
NormalizedAxis(axis, dims) == IF axis < 0 THEN axis + dims ELSE axis

\* lines 710-716
constraint_axis_valid(op) ==
    LET dims == Len(op_ofm(op)[1].shape[1])
        axis == NormalizedAxis(op.attrs.axis[1], dims)
    IN  0 <= axis /\ axis < dims

\* lines 719-731
constraint_matching_dimensionality(op) ==
    AllOf(op.inputs, LAMBDA tens : Len(tens.shape[1]) = Len(op_ofm(op)[1].shape[1]))

\* lines 734-748; dimensions are counted from 0 as in the source. When the call returns, a
\* tensor with fewer dimensions than the OFM differs from it on one of those it has
constraint_valid_dimensions(op) ==
    LET ofm_shape == op_ofm(op)[1].shape[1]
        ofm_dim == Len(ofm_shape)
        axis == NormalizedAxis(op.attrs.axis[1], ofm_dim)
    IN  AllOf(op.inputs,
              LAMBDA tens : \A dim \in 0..(ofm_dim - 1) :
                                dim # axis => /\ dim < Len(tens.shape[1])
                                              /\ tens.shape[1][dim + 1] = ofm_shape[dim + 1])

\* lines 809-814
constraint_matching_inputs_types(op) == op_ifm(op)[1].dtype = op_ifm2(op)[1].dtype

\* lines 817-824
constraint_matching_signed(op) ==
    op_ifm(op)[1].dtype \in SignedTypes => op_ofm(op)[1].dtype \in SignedTypes

\* lines 827-834
constraint_unsigned_valid(op) ==
    op_ifm(op)[1].dtype \in UnsignedTypes =>
        (op_ifm(op)[1].dtype = op_ofm(op)[1].dtype \/ op_ofm(op)[1].dtype = "int32")

\* lines 837-842: op.ifm.dtype and op.ifm2.dtype are both read before they are compared, so
\* a missing IFM or IFM2 raises AttributeError whatever the other data type is
constraint_inputs_int32(op) ==
    IF op_ifm(op) = None \/ op_ifm2(op) = None THEN Raised
    ELSE Returns(op_ifm(op)[1].dtype = "int32" /\ op_ifm2(op)[1].dtype = "int32")

\* lines 845-849
constraint_output_int32(op) == op_ofm(op)[1].dtype = "int32"

\* lines 866-877
constraint_elemwise_batch_size(op) ==
    AllOf(op_ifm(op) \o op_ifm2(op),
          LAMBDA tens : ~(Len(tens.shape[1]) > 2 /\ tens.shape[1][1] # Some(1)))

\* lines 880-886 with "valid" always true
constraint_matching_either_shapes_unchecked(op) == TRUE

\* lines 880-886; a missing IFM2 gives ifm2_shape = None
constraint_matching_either_shapes(op) ==
    LET ifm_shape == op_ifm(op)[1].shape
        ifm2_shape == IF op_ifm2(op) # None THEN op_ifm2(op)[1].shape ELSE None
        ofm_shape == op_ofm(op)[1].shape
    IN  ifm_shape = ofm_shape \/ ifm2_shape = ofm_shape

\* shape[-size:] : the whole list when size is 0 or not smaller than the length
Trailing(shape, size) ==
    IF size = 0 \/ size >= Len(shape) THEN shape
    ELSE SubSeq(shape, Len(shape) - size + 1, Len(shape))

\* lines 899-904: the test of one triple of dimensions; max(i, i2) needs two integers
BroadcastValid(i, i2, o) ==
    /\ i # None /\ i2 # None
    /\ LET mi == IF i[1] >= i2[1] THEN i[1] ELSE i2[1]
       IN  ~(~(i = i2 \/ i = Some(1) \/ i2 = Some(1)) \/ o # Some(mi))

\* lines 889-907
constraint_broadcast_shapes(op) ==
    LET ifm_shape == op_ifm(op)[1].shape
        ifm2_shape == IF op_ifm2(op) # None THEN op_ifm2(op)[1].shape ELSE None
        ofm_shape == op_ofm(op)[1].shape
    IN  IF ifm_shape # None /\ ifm2_shape # None
        THEN LET size == IF Len(ifm_shape[1]) <= Len(ifm2_shape[1]) THEN Len(ifm_shape[1])
                         ELSE Len(ifm2_shape[1])
                 i1 == Trailing(ifm_shape[1], size)
                 i2 == Trailing(ifm2_shape[1], size)
                 o == Trailing(ofm_shape[1], size)
                 zipped == {k \in DOMAIN i1 : k <= Len(i2) /\ k <= Len(o)}
             IN  \A k \in zipped : BroadcastValid(i1[k], i2[k], o[k])
        ELSE TRUE

(***************************************************************************)
(* supported_operators.py : __init__ and is_operator_supported             *)
(***************************************************************************)
\* lines 120-133
generic_constraints ==
    <<"constraint_tens_no_dynamic", "constraint_tens_defined_shape",
      "constraint_tens_output_scalar", "constraint_tens_input_scalar",
      "constraint_tens_shape_size", "constraint_tens_dtype", "constraint_tens_int32_ops",
      "constraint_tens_dimension", "constraint_tens_quant_none_check",
      "constraint_tens_quant_scale", "constraint_tens_quant_per_axis", "constraint_faf">>

\* the constraints a loop of __init__ appends for the op types of ops_set
Registered(type, ops_set, constraints) == IF type \in ops_set THEN constraints ELSE <<>>

\* lines 136-249: the list __init__ builds for one op type, in the order of the appends
specific_constraints(type) ==
    Registered(type, convolution_like_ops,
               <<"constraint_stride_type", "constraint_stride_range", "constraint_dilation_type",
                 "constraint_dilation_range", "constraint_dilated_height_range",
                 "constraint_dilated_product_range", "constraint_weights_type",
                 "constraint_weights_const", "constraint_weights_limit", "constraint_bias_type",
                 "constraint_bias_40bit", "constraint_batch_size">>)
    \o Registered(type, depthwise_convolution_ops, <<"constraint_depth_multiplier">>)
    \o Registered(type, transpose_convolution_ops,
                  <<"constraint_tconv_stride", "constraint_tconv_same", "constraint_tconv_valid">>)
    \o Registered(type, pooling_ops,
                  <<"constraint_batch_size", "constraint_stride_type", "constraint_stride_range">>)
    \o Registered(type, avg_pooling_ops,
                  <<"constraint_matching_in_out_types", "constraint_filter_type",
                    "constraint_filter_range", "constraint_filter_height_range_valid_pad",
                    "constraint_filter_product_range_valid_pad">>)
    \o Registered(type, max_pooling_ops,
                  <<"constraint_matching_in_out_types", "constraint_filter_type",
                    "constraint_filter_height_range", "constraint_filter_product_range">>)
    \o Registered(type, relu_ops, <<"constraint_quant_scale_inf">>)
    \o Registered(type, resizing_ops, <<"constraint_resize">>)
    \o Registered(type, fc_vector_products,
                  <<"constraint_weights_type", "constraint_weights_const", "constraint_bias_type",
                    "constraint_bias_40bit">>)
    \o Registered(type, {"Concat", "ConcatTFLite"},
                  <<"constraint_axis_exists", "constraint_axis_valid",
                    "constraint_matching_dimensionality", "constraint_valid_dimensions">>)
    \o Registered(type, SupportedOperators_elem_wise_main_ops,
                  <<"constraint_elemwise_batch_size", "constraint_matching_either_shapes">>)
    \o Registered(type, SupportedOperators_unary_elem_wise_main_ops,
                  <<"constraint_matching_in_out_types">>)
    \o Registered(type, binary_elem_wise_min_max_ops,
                  <<"constraint_matching_in_out_types",
                    "constraint_matching_quantization_parameters", "constraint_broadcast_shapes">>)
    \o Registered(type, binary_elem_wise_add_mul_sub,
                  <<"constraint_matching_inputs_types", "constraint_matching_signed",
                    "constraint_unsigned_valid", "constraint_broadcast_shapes">>)
    \o Registered(type, binary_elem_wise_shift_ops,
                  <<"constraint_inputs_int32", "constraint_broadcast_shapes">>)
    \o Registered(type, {"SHL"}, <<"constraint_output_int32">>)
    \o Registered(type, {"CLZ"}, <<"constraint_output_int32">>)
    \o Registered(type, {"Softmax"},
                  <<"constraint_matching_shapes", "constraint_matching_in_out_types",
                    "constraint_beta_value_range">>)
    \o Registered(type, {"SplitV"}, <<"constraint_splitv_inferred">>)
    \o Registered(type, {"StridedSlice"},
                  <<"constraint_stridedslice_input_count", "constraint_stridedslice_inputs_const",
                    "constraint_stridedslice_stride_values", "constraint_ellipsis_mask",
                    "constraint_axis_masks", "constraint_slice_ranges">>)
    \o Registered(type, {"LeakyRelu"}, <<"constraint_alpha_valid">>)

\* the per-kind constraints put in front of the generic ones
ConstraintsOf_specific_first(type) == specific_constraints(type) \o generic_constraints

\* line 258: self.generic_constraints + self.specific_constraints[op.type]
ConstraintsOf(type) == generic_constraints \o specific_constraints(type)

\* line 259: valid, extra = constraint(op), for the constraints of the op types explored
Valid(constraint, op) ==
    CASE constraint = "constraint_tens_no_dynamic" -> constraint_tens_no_dynamic(op)
      [] constraint = "constraint_tens_defined_shape" -> constraint_tens_defined_shape(op)
      [] constraint = "constraint_tens_output_scalar" -> constraint_tens_output_scalar(op)
      [] constraint = "constraint_tens_input_scalar" -> constraint_tens_input_scalar(op)
      [] constraint = "constraint_tens_shape_size" -> constraint_tens_shape_size(op)
      [] constraint = "constraint_tens_dtype" -> constraint_tens_dtype(op)
      [] constraint = "constraint_tens_int32_ops" -> constraint_tens_int32_ops(op)
      [] constraint = "constraint_tens_dimension" -> constraint_tens_dimension(op)
      [] constraint = "constraint_tens_quant_none_check" -> constraint_tens_quant_none_check(op)
      [] constraint = "constraint_tens_quant_scale" -> constraint_tens_quant_scale(op)
      [] constraint = "constraint_tens_quant_per_axis" -> constraint_tens_quant_per_axis(op)
      [] constraint = "constraint_faf" -> constraint_faf(op)
      [] constraint = "constraint_weights_type" -> constraint_weights_type(op)
      [] constraint = "constraint_weights_const" -> constraint_weights_const(op)
      [] constraint = "constraint_bias_type" -> constraint_bias_type(op)
      [] constraint = "constraint_bias_40bit" -> constraint_bias_40bit(op)
      [] constraint = "constraint_matching_in_out_types" -> constraint_matching_in_out_types(op)
      [] constraint = "constraint_resize" -> constraint_resize(op)
      [] constraint = "constraint_axis_exists" -> constraint_axis_exists(op)
      [] constraint = "constraint_axis_valid" -> constraint_axis_valid(op)
      [] constraint = "constraint_matching_dimensionality" ->
             constraint_matching_dimensionality(op)
      [] constraint = "constraint_valid_dimensions" -> constraint_valid_dimensions(op)
      [] constraint = "constraint_matching_inputs_types" -> constraint_matching_inputs_types(op)
      [] constraint = "constraint_matching_signed" -> constraint_matching_signed(op)
      [] constraint = "constraint_unsigned_valid" -> constraint_unsigned_valid(op)
      [] constraint = "constraint_inputs_int32" -> constraint_inputs_int32(op)[1]
      [] constraint = "constraint_output_int32" -> constraint_output_int32(op)
      [] constraint = "constraint_elemwise_batch_size" -> constraint_elemwise_batch_size(op)
      [] constraint = "constraint_matching_either_shapes" ->
             constraint_matching_either_shapes(op)
      [] constraint = "constraint_broadcast_shapes" -> constraint_broadcast_shapes(op)

(***************************************************************************)
(* Operations handed to is_operator_supported                              *)
(***************************************************************************)
DefaultQuantization == Some([scale_f32 |-> "finite", per_axis |-> FALSE])

\* a quantised tensor as testutil creates it; a shapeless tensor is a constant scalar
Tens(shape, dtype) ==
    [shape |-> Shape(shape), dtype |-> dtype, values |-> (shape = <<>>),
     quantization |-> DefaultQuantization, quant_values |-> None]

NoAttrs == [axis |-> None, align_corners |-> FALSE]

MakeOp(type, inputs, outputs, attrs, activation) ==
    [type |-> type, inputs |-> inputs, outputs |-> outputs, attrs |-> attrs,
     activation |-> activation]

ElemShapes ==
    {<<>>, <<1, 4>>, <<4, 4>>, <<2, 2>>, <<2, 2, 2>>, <<1, 1, 4, 1>>, <<1, 4, 1, 16>>,
     <<1, 4, 4, 16>>}

\* <<IFM, IFM2, OFM>> data types of the binary operations
BinaryDtypes ==
    {<<"uint8", "uint8", "uint8">>, <<"int8", "int8", "int8">>, <<"int16", "int16", "int16">>,
     <<"int32", "int32", "int32">>, <<"int8", "uint8", "int8">>, <<"uint8", "uint8", "int32">>,
     <<"uint8", "uint8", "int8">>, <<"int8", "int8", "uint8">>,
     <<"float32", "float32", "float32">>}

BinaryElementwiseOps ==
    {MakeOp(type, <<Tens(s1, d[1]), Tens(s2, d[2])>>, <<Tens(so, d[3])>>, NoAttrs, None) :
        type \in {"Add", "SHL"}, s1 \in ElemShapes, s2 \in ElemShapes, so \in ElemShapes,
        d \in BinaryDtypes}

\* <<IFM, OFM>> data types of the unary operations
UnaryDtypes ==
    {<<"int32", "int32">>, <<"uint8", "uint8">>, <<"int8", "uint8">>, <<"int32", "uint8">>,
     <<"float32", "float32">>}

UnaryElementwiseOps ==
    {MakeOp(type, <<Tens(s1, d[1])>>, <<Tens(so, d[2])>>, NoAttrs, None) :
        type \in {"CLZ", "Abs"}, s1 \in ElemShapes, so \in ElemShapes, d \in UnaryDtypes}

ConcatShapes == {<<1, 1, 1, 4>>, <<1, 4>>, <<1, 2, 2, 4>>, <<1, 1, 1, 8>>}
ConcatAxes == {None} \cup {Some(axis) : axis \in {-5, -4, -2, -1, 0, 1, 3, 4, 7}}

ConcatOps ==
    {MakeOp(type, <<Tens(s1, "uint8"), Tens(s2, "uint8")>>, <<Tens(so, "uint8")>>,
            [axis |-> axis, align_corners |-> FALSE], None) :
        type \in {"Concat", "ConcatTFLite"}, s1 \in ConcatShapes, s2 \in ConcatShapes,
        so \in ConcatShapes \cup {<<1, 8>>, <<2, 4>>, <<1, 1, 2, 4>>}, axis \in ConcatAxes}

ResizeIfmShapes == {<<1, h, w, 8>> : h \in {1, 2, 4}, w \in {1, 2, 4}} \cup {<<4, 4, 8>>}
ResizeOfmShapes ==
    {<<1, h, w, 8>> : h \in {1, 2, 3, 4, 7, 8, 13, 16, 20}, w \in {1, 2, 3, 4, 7, 8, 13, 16, 20}}

ResizeOps ==
    {MakeOp("ResizeBilinear", <<Tens(si, "uint8")>>, <<Tens(so, "uint8")>>,
            [axis |-> None, align_corners |-> align_corners], None) :
        si \in ResizeIfmShapes, so \in ResizeOfmShapes, align_corners \in BOOLEAN}

\* bias values around the ends of the 40-bit ranges (0x01FFFFFFFFFF is the value of the test)
BiasValues ==
    {BigInt(FALSE, <<>>), BigInt(FALSE, Pow2(0)), BigInt(TRUE, Pow2(0)),
     BigInt(FALSE, Pow2Minus1(8)),
     BigInt(FALSE, Pow2Minus1(39)), BigInt(FALSE, Pow2(39)), BigInt(FALSE, Pow2Minus1(40)),
     BigInt(FALSE, Pow2(40)), BigInt(FALSE, Pow2Minus1(41)),
     BigInt(TRUE, Pow2Minus1(39)), BigInt(TRUE, Pow2(39)), BigInt(TRUE, <<1>> \o Pow2(39)),
     BigInt(TRUE, Pow2Minus1(40))}

BiasQuantValues ==
    {None} \cup {Some(<<v>>) : v \in BiasValues}
    \cup {Some(<<BigInt(FALSE, Pow2Minus1(8)), v>>) : v \in BiasValues}

\* a bias tensor as the tests create it: no quantization parameters
BiasTensors ==
    {[shape |-> Shape(<<4>>), dtype |-> dtype, values |-> TRUE, quantization |-> None,
      quant_values |-> quant_values] :
        dtype \in {"int32", "int64", "uint8"}, quant_values \in BiasQuantValues}

FullyConnectedOps ==
    {MakeOp("FullyConnected",
            <<Tens(<<1, 8>>, "uint8"),
              [Tens(<<8, 4>>, weights_dtype) EXCEPT !.values = weights_const]>> \o bias,
            <<Tens(<<1, 4>>, "uint8")>>, NoAttrs, None) :
        weights_dtype \in {"uint8", "int8", "int16"}, weights_const \in BOOLEAN,
        bias \in {<<>>} \cup {<<b>> : b \in BiasTensors}}

Quantizations ==
    {None, DefaultQuantization, Some([scale_f32 |-> "None", per_axis |-> FALSE]),
     Some([scale_f32 |-> "inf", per_axis |-> FALSE]),
     Some([scale_f32 |-> "finite", per_axis |-> TRUE])}

\* operations that exercise the generic constraints and the check of the op type
GenericOps ==
    {MakeOp(type,
            <<[shape |-> si, dtype |-> dtype, values |-> values, quantization |-> quantization,
               quant_values |-> None]>>,
            <<[shape |-> so, dtype |-> dtype, values |-> values,
               quantization |-> DefaultQuantization, quant_values |-> None]>>,
            NoAttrs, activation) :
        type \in {"Reshape", "Transpose", "Placeholder"},
        si \in {Shape(<<1, 8, 8, 8>>), Shape(<<>>), Shape(<<1, 1, 8, 8, 8>>),
                Some(<<Some(1), Some(8), None, Some(8)>>), None, Shape(<<1, -1, 8, 8>>),
                Shape(<<1, 0, 8, 8>>), Shape(<<1, 65536, 1, 1>>), Shape(<<1, 65535, 1, 1>>)},
        so \in {Shape(<<1, 8, 8, 8>>), Shape(<<>>), Shape(<<64, 8>>)},
        dtype \in {"uint8", "int32", "float32"},
        values \in BOOLEAN,
        quantization \in Quantizations,
        activation \in {None, Some("Relu"), Some("LeakyRelu")}}

\* operations that lack an input or the output a constraint reads
IncompleteOps ==
    {MakeOp(type, inputs, outputs, NoAttrs, None) :
        type \in {"Add", "SHL", "Abs", "FullyConnected", "ResizeBilinear", "Reshape"},
        inputs \in {<<>>, <<Tens(<<1, 4>>, "uint8")>>, <<Tens(<<1, 4>>, "int32")>>},
        outputs \in {<<>>, <<Tens(<<1, 4>>, "uint8")>>, <<Tens(<<1, 4>>, "int32")>>}}

CheckedOps ==
    BinaryElementwiseOps \cup UnaryElementwiseOps \cup ConcatOps \cup ResizeOps
    \cup FullyConnectedOps \cup GenericOps \cup IncompleteOps

(***************************************************************************)
(* is_operator_supported, one constraint per step                          *)
(***************************************************************************)
SupInit ==
    /\ sup_op \in CheckedOps
    /\ sup_evaluated = <<>>
    /\ sup_log = <<>>
    /\ sup_result = FALSE
    /\ sup_pc = "start"

SupIdle ==
    /\ sup_op = MakeOp("Placeholder", <<>>, <<>>, NoAttrs, None)
    /\ sup_evaluated = <<>>
    /\ sup_log = <<>>
    /\ sup_result = FALSE
    /\ sup_pc = "idle"

\* lines 252-256
check_op_type ==
    /\ sup_pc = "start"
    /\ IF sup_op.type \notin supported_operators
       THEN /\ sup_log' = IF sup_op.type \notin {"Placeholder", "SubgraphInput", "Const"}
                          THEN <<[kind |-> "Info", constraint |-> ""]>>
                          ELSE <<>>
            /\ sup_result' = FALSE
            /\ sup_pc' = "done"
       ELSE /\ sup_pc' = "constraints"
            /\ UNCHANGED <<sup_log, sup_result>>
    /\ UNCHANGED <<sup_op, sup_evaluated>>

\* line 369: all() stops at the first dimension out of range; the comparison of a dimension
\* that is None with the range raises TypeError, as does the iteration over a shape None
DimensionRaises(shp) ==
    \/ shp = None
    \/ \E i \in DOMAIN shp[1] :
           shp[1][i] = None /\ \A j \in 1..(i - 1) : InDimRange(shp[1][j])

\* lines 667-683: the reads of constraint_resize that raise: a missing IFM or OFM, len() of
\* a shape None and, when the loop is reached, the slice of a shape None, the comparison of
\* two arrays that cannot be broadcast (the OFM has fewer than two dimensions) or of a
\* dimension None
ResizeRaises(op) ==
    \/ op_ifm(op) = None
    \/ op_ofm(op) = None
    \/ op_ifm(op)[1].shape = None
    \/ LET ifm_shape == op_ifm(op)[1].shape
           ofm_shape == op_ofm(op)[1].shape
       IN  /\ Len(ifm_shape[1]) = 4
           /\ ~((ifm_shape[1][2] = Some(1) /\ ifm_shape[1][3] = Some(1)) \/ ifm_shape = ofm_shape)
           /\ \/ ofm_shape = None
              \/ Len(ofm_shape[1]) < 2
              \/ ifm_shape[1][2] = None
              \/ ifm_shape[1][3] = None
              \/ \E i \in {2, 3} \cap DOMAIN ofm_shape[1] : ofm_shape[1][i] = None

\* lines 738-744: tens.shape[dim] on a shape None or on a shape too short for dim, reached
\* when the dimensions before dim equal those of the OFM (any() stops at the first difference)
ValidDimensionsRaises(op) ==
    \/ op_ofm(op) = None
    \/ op_ofm(op)[1].shape = None
    \/ op.attrs.axis = None
    \/ LET ofm_shape == op_ofm(op)[1].shape[1]
           ofm_dim == Len(ofm_shape)
           axis == NormalizedAxis(op.attrs.axis[1], ofm_dim)
           compared == {dim \in 0..(ofm_dim - 1) : dim # axis}
       IN  \E i \in DOMAIN op.inputs :
               LET shp == op.inputs[i].shape
               IN  IF shp = None THEN compared # {}
                   ELSE /\ \E dim \in compared : dim >= Len(shp[1])
                        /\ \A dim \in compared :
                               dim < Len(shp[1]) => shp[1][dim + 1] = ofm_shape[dim + 1]

\* lines 891-904: a missing IFM or OFM, the slice of an OFM shape None, and max(i, i2) on a
\* dimension None, reached when the triples before it are valid (line 904 leaves the loop)
BroadcastRaises(op) ==
    \/ op_ifm(op) = None
    \/ op_ofm(op) = None
    \/ LET ifm_shape == op_ifm(op)[1].shape
           ifm2_shape == IF op_ifm2(op) # None THEN op_ifm2(op)[1].shape ELSE None
           ofm_shape == op_ofm(op)[1].shape
       IN  /\ ifm_shape # None
           /\ ifm2_shape # None
           /\ \/ ofm_shape = None
              \/ LET size == IF Len(ifm_shape[1]) <= Len(ifm2_shape[1]) THEN Len(ifm_shape[1])
                              ELSE Len(ifm2_shape[1])
                     i1 == Trailing(ifm_shape[1], size)
                     i2 == Trailing(ifm2_shape[1], size)
                     o == Trailing(ofm_shape[1], size)
                     zipped == {k \in DOMAIN i1 : k <= Len(i2) /\ k <= Len(o)}
                 IN  \E k \in zipped :
                         /\ i1[k] = None \/ i2[k] = None
                         /\ \A j \in zipped : j < k => BroadcastValid(i1[j], i2[j], o[j])

\* line 259: the call constraint(op) raises an exception (AttributeError for an attribute of
\* a missing tensor or of missing quantization parameters, TypeError for len() or a
\* comparison of None, KeyError or IndexError for a missing attribute or dimension)
Raises(constraint, op) ==
    CASE constraint = "constraint_tens_output_scalar" -> op_ofm(op) = None
      [] constraint = "constraint_tens_shape_size" ->
             \E i \in DOMAIN (op.inputs \o op.outputs) : (op.inputs \o op.outputs)[i].shape = None
      [] constraint = "constraint_tens_dimension" ->
             \E i \in DOMAIN CheckedTensors(op) : DimensionRaises(CheckedTensors(op)[i].shape)
      [] constraint = "constraint_tens_quant_scale" ->
             \E i \in DOMAIN get_ifm_ifm2_weights_ofm(op) :
                 get_ifm_ifm2_weights_ofm(op)[i].quantization = None
      [] constraint = "constraint_tens_quant_per_axis" ->
             /\ op.type \notin per_axis_quant_ops
             /\ \E i \in DOMAIN get_ifm_ifm2_weights_ofm(op) :
                    get_ifm_ifm2_weights_ofm(op)[i].quantization = None
      [] constraint \in {"constraint_weights_type", "constraint_weights_const"} ->
             op_weights(op) = None
      [] constraint \in {"constraint_matching_in_out_types", "constraint_matching_signed",
                         "constraint_unsigned_valid", "constraint_matching_either_shapes"} ->
             op_ifm(op) = None \/ op_ofm(op) = None
      [] constraint = "constraint_resize" -> ResizeRaises(op)
      [] constraint = "constraint_axis_valid" ->
             op_ofm(op) = None \/ op_ofm(op)[1].shape = None \/ op.attrs.axis = None
      [] constraint = "constraint_matching_dimensionality" ->
             \/ op_ofm(op) = None
             \/ op_ofm(op)[1].shape = None
             \/ \E i \in DOMAIN op.inputs : op.inputs[i].shape = None
      [] constraint = "constraint_valid_dimensions" -> ValidDimensionsRaises(op)
      [] constraint = "constraint_matching_inputs_types" ->
             op_ifm(op) = None \/ op_ifm2(op) = None
      [] constraint = "constraint_inputs_int32" -> constraint_inputs_int32(op) = Raised
      [] constraint = "constraint_output_int32" -> op_ofm(op) = None
      [] constraint = "constraint_elemwise_batch_size" ->
             \E i \in DOMAIN (op_ifm(op) \o op_ifm2(op)) :
                 (op_ifm(op) \o op_ifm2(op))[i].shape = None
      [] constraint = "constraint_broadcast_shapes" -> BroadcastRaises(op)
      [] OTHER -> FALSE

\* lines 258-265: one iteration of the loop over the constraints
check_constraint ==
    /\ sup_pc = "constraints"
    /\ Len(sup_evaluated) < Len(ConstraintsOf(sup_op.type))
    /\ LET constraint == ConstraintsOf(sup_op.type)[Len(sup_evaluated) + 1]
       IN  /\ sup_evaluated' = Append(sup_evaluated, constraint)
           /\ IF Raises(constraint, sup_op)
              THEN \* the exception leaves is_operator_supported: nothing printed or returned
                   /\ sup_pc' = "raised"
                   /\ UNCHANGED <<sup_log, sup_result>>
              ELSE IF Valid(constraint, sup_op)
              THEN UNCHANGED <<sup_log, sup_result, sup_pc>>
              ELSE /\ sup_log' = Append(sup_log, [kind |-> "Warning", constraint |-> constraint])
                   /\ sup_result' = FALSE
                   /\ sup_pc' = "done"
    /\ UNCHANGED sup_op

\* line 267
return_supported ==
    /\ sup_pc = "constraints"
    /\ Len(sup_evaluated) = Len(ConstraintsOf(sup_op.type))
    /\ sup_result' = TRUE
    /\ sup_pc' = "done"
    /\ UNCHANGED <<sup_op, sup_evaluated, sup_log>>

SupNext == check_op_type \/ check_constraint \/ return_supported

(***************************************************************************)
(* Specifications                                                          *)
(***************************************************************************)
\* lines 107-118: the value of lut_tens.address after the command added to hl_stream
RecordAddress ==
    lut_addresses' =
        IF Len(hl_stream') = Len(hl_stream) THEN lut_addresses
        ELSE LET cmd == hl_stream'[Len(hl_stream')]
             IN  Append(lut_addresses,
                        IF IsLutDma(cmd) THEN Some(tensors'[cmd.out_tensor].address) ELSE None)

NoHistory == lut_addresses = <<>>

(***************************************************************************)
(* supported_operators.py : constraint_resize, one loop iteration per step *)
(***************************************************************************)
\* tensor dimensions inside tens_dim_range (constraint_tens_dimension, lines 360-372)
ResizeDims == {1, 2, 3, 5, 32768, 65535}

ResizeShapes == {<<1, h, w, 1>> : h \in ResizeDims, w \in ResizeDims}

\* IFM shapes of another rank, for which line 670 skips the comparison
ResizeOtherRankShapes == {<<4, 4, 8>>, <<4, 8, 8>>, <<1, 1, 8>>}

ResizeInit ==
    /\ resize_ifm_shape \in ResizeShapes \cup ResizeOtherRankShapes
    /\ resize_ofm_shape \in ResizeShapes \cup ResizeOtherRankShapes
    /\ \A i \in DOMAIN resize_ifm_shape : /\ tens_dim_range[1] <= resize_ifm_shape[i]
                                          /\ resize_ifm_shape[i] <= tens_dim_range[2]
    /\ \A i \in DOMAIN resize_ofm_shape : /\ tens_dim_range[1] <= resize_ofm_shape[i]
                                          /\ resize_ofm_shape[i] <= tens_dim_range[2]
    /\ resize_align_corners \in BOOLEAN
    /\ upscaled_shape = <<>>
    /\ resize_valid = FALSE
    /\ resize_pc = "start"

ResizeIdle ==
    /\ resize_ifm_shape = <<>>
    /\ resize_ofm_shape = <<>>
    /\ resize_align_corners = FALSE
    /\ upscaled_shape = <<>>
    /\ resize_valid = FALSE
    /\ resize_pc = "idle"

\* line 672 without the test for an IFM of width and height 1
SkipsUpscaling_same_shape_only(ifm_shape, ofm_shape) == ifm_shape = ofm_shape

\* line 672
SkipsUpscaling(ifm_shape, ofm_shape) ==
    (ifm_shape[2] = 1 /\ ifm_shape[3] = 1) \/ ifm_shape = ofm_shape

\* ifm_shape[1:3] and ofm_shape[1:3]
HeightWidth(shape) == <<shape[2], shape[3]>>

\* line 677: (upscaled_shape < out_shape).all()
AllSmaller(a, b) == \A i \in DOMAIN a : a[i] < b[i]

\* lines 678-680
UpscaleOnce(shape, align_corners) ==
    [i \in DOMAIN shape |-> IF align_corners THEN shape[i] * 2 - 1 ELSE shape[i] * 2]

\* lines 666-676: up to the first test of the while condition
resize_enter ==
    /\ resize_pc = "start"
    /\ IF Len(resize_ifm_shape) # 4
       THEN \* line 670: valid stays False
            /\ resize_pc' = "done"
            /\ UNCHANGED <<upscaled_shape, resize_valid>>
       ELSE IF SkipsUpscaling(resize_ifm_shape, resize_ofm_shape)
       THEN /\ resize_valid' = TRUE
            /\ resize_pc' = "done"
            /\ UNCHANGED upscaled_shape
       ELSE /\ upscaled_shape' = HeightWidth(resize_ifm_shape)
            /\ resize_pc' = "loop"
            /\ UNCHANGED resize_valid
    /\ UNCHANGED <<resize_ifm_shape, resize_ofm_shape, resize_align_corners>>

\* lines 677-684: one iteration of the while loop
resize_iterate ==
    /\ resize_pc = "loop"
    /\ AllSmaller(upscaled_shape, HeightWidth(resize_ofm_shape))
    /\ upscaled_shape' = UpscaleOnce(upscaled_shape, resize_align_corners)
    /\ IF HeightWidth(resize_ofm_shape) = upscaled_shape'
       THEN resize_valid' = TRUE /\ resize_pc' = "done"
       ELSE UNCHANGED <<resize_valid, resize_pc>>
    /\ UNCHANGED <<resize_ifm_shape, resize_ofm_shape, resize_align_corners>>

\* lines 677 and 685: the while condition is false, valid is returned
resize_return ==
    /\ resize_pc = "loop"
    /\ ~AllSmaller(upscaled_shape, HeightWidth(resize_ofm_shape))
    /\ resize_pc' = "done"
    /\ UNCHANGED <<resize_ifm_shape, resize_ofm_shape, resize_align_corners, upscaled_shape,
                   resize_valid>>

ResizeNext == resize_enter \/ resize_iterate \/ resize_return

Init == LutInit /\ PackIdle /\ ApiIdle /\ SupIdle /\ NoHistory /\ ResizeIdle

Next == LutNext /\ RecordAddress /\ UNCHANGED <<pack_vars, api_vars, sup_vars, resize_vars>>

Spec == Init /\ [][Next]_vars

PackSpecInit == LutIdle /\ PackInit /\ ApiIdle /\ SupIdle /\ NoHistory /\ ResizeIdle

PackSpecNext == PackNext /\ UNCHANGED <<lut_vars, api_vars, sup_vars, hist_vars, resize_vars>>

PackSpec == PackSpecInit /\ [][PackSpecNext]_vars

ApiSpecInit == LutIdle /\ PackIdle /\ ApiInit /\ SupIdle /\ NoHistory /\ ResizeIdle

ApiSpecNext == ApiNext /\ UNCHANGED <<lut_vars, pack_vars, sup_vars, hist_vars, resize_vars>>

ApiSpec == ApiSpecInit /\ [][ApiSpecNext]_vars

SupSpecInit == LutIdle /\ PackIdle /\ ApiIdle /\ SupInit /\ NoHistory /\ ResizeIdle

SupSpecNext == SupNext /\ UNCHANGED <<lut_vars, pack_vars, api_vars, hist_vars, resize_vars>>

SupSpec == SupSpecInit /\ [][SupSpecNext]_vars

\* constraint_resize runs in one thread: an enabled step of it is eventually taken
ResizeSpecInit == LutIdle /\ PackIdle /\ ApiIdle /\ SupIdle /\ NoHistory /\ ResizeInit

ResizeSpecNext == ResizeNext /\ UNCHANGED <<lut_vars, pack_vars, api_vars, sup_vars, hist_vars>>

ResizeSpec == ResizeSpecInit /\ [][ResizeSpecNext]_vars /\ WF_vars(ResizeSpecNext)

(***************************************************************************)
(* Properties of the LUT rewrite pass                                      *)
(***************************************************************************)
LutRegionStart == arch.shram_lut_address
LutRegionEnd == arch.shram_lut_address + arch.shram_lut_size

KeptLutDmas == {i \in DOMAIN hl_stream : IsLutDma(hl_stream[i]) /\ i \notin dropped}

ResettingStripes == {i \in DOMAIN hl_stream : StripeResets(arch, hl_stream[i])}

\* C1: after the rewrite, every LUT DMA command of the input stream (kept or
\* dropped) leaves its pass's primary op with 0 <= lut_index < 8 and its LUT
\* tensor with an address in
\* [shram_lut_address, shram_lut_address + shram_lut_size - LUT size].
C1_SlotIndexInvariant ==
    lut_pc = "done" =>
        \A i \in DOMAIN hl_stream :
            IsLutDma(hl_stream[i]) =>
                LET cmd == hl_stream[i]
                    t == tensors[cmd.out_tensor]
                IN  /\ 0 <= lut_index[cmd.ps]
                    /\ lut_index[cmd.ps] < 8
                    /\ LutRegionStart <= t.address
                    /\ t.address <= LutRegionEnd - storage_size(t)

C1_Witness ==
    /\ lut_pc = "done"
    /\ dropped # {}
    /\ \E i \in KeptLutDmas : tensors[hl_stream[i].out_tensor].address > LutRegionStart
    /\ \E i \in KeptLutDmas : storage_size(tensors[hl_stream[i].out_tensor]) > slot_size

\* C2: in every reachable LUTState no two resident LUT tensors with distinct
\* equivalence ids have intersecting half-open intervals
\* [address, address + storage_size).
C2_NoOverlapInState ==
    \A i, j \in DOMAIN lut_state :
        LET t1 == tensors[lut_state[i]]
            t2 == tensors[lut_state[j]]
        IN  (i # j /\ t1.equivalence_id # t2.equivalence_id) =>
                ~(t1.address < t2.address + storage_size(t2)
                  /\ t2.address < t1.address + storage_size(t1))

\* put has evicted an overlapping LUT: with no state reset in the stream, the
\* LUT of an earlier kept DMA is no longer resident while a LUT with another
\* id is
C2_Witness ==
    /\ ResettingStripes = {}
    /\ lut_state # <<>>
    /\ \E i \in KeptLutDmas :
          /\ \A k \in DOMAIN lut_state : lut_state[k] # hl_stream[i].out_tensor
          /\ tensors[lut_state[1]].equivalence_id
                # tensors[hl_stream[i].out_tensor].equivalence_id

\* C3: when the rewrite meets a LUT DMA whose equivalent LUT is resident it
\* drops the DMA, copies the resident address to the incoming tensor and sets
\* lut_index to (address - shram_lut_address) / 256.
C3_DroppedIndexIsSlot ==
    [][(lut_pc = "loop" /\ dropped' # dropped) =>
          LET cmd == hl_stream'[Len(hl_stream')]
              existing == get_equivalent(lut_state', tensors, cmd.out_tensor)
          IN  /\ cmd_stream' = cmd_stream
              /\ existing # NoTensor
              /\ tensors'[cmd.out_tensor].address = tensors[existing].address
              /\ lut_index'[cmd.ps] =
                    (tensors'[cmd.out_tensor].address - LutRegionStart) \div slot_size]_vars

\* C4: for the stream DMA(L) -> NpuStripe using L -> DMA(L') -> NpuStripe
\* using L' with L and L' equivalent, the second DMA is removed and the
\* primary ops of both passes end with the same lut_index.
C4_Pattern ==
    /\ Len(hl_stream) = 4
    /\ IsLutDma(hl_stream[1])
    /\ hl_stream[2] = NpuStripeCmd(hl_stream[1].ps)
    /\ IsLutDma(hl_stream[3])
    /\ hl_stream[4] = NpuStripeCmd(hl_stream[3].ps)
    /\ equivalent(tensors[hl_stream[1].out_tensor], tensors[hl_stream[3].out_tensor])

C4_SecondDmaRemoved ==
    (lut_pc = "done" /\ C4_Pattern) =>
        /\ cmd_stream = <<hl_stream[1], hl_stream[2], hl_stream[4]>>
        /\ lut_index[hl_stream[1].ps] = lut_index[hl_stream[3].ps]
        /\ lut_index[hl_stream[1].ps] # NoIndex

C4_Witness ==
    /\ lut_pc = "done"
    /\ C4_Pattern
    /\ hl_stream[1].ps # hl_stream[3].ps
    /\ storage_size(tensors[hl_stream[1].out_tensor]) > slot_size

\* C5: an NPU stripe whose pass has no LUT tensor, with zero reserved unused
\* SHRAM banks, empties the LUT state, so the next LUT DMA is kept; a stripe
\* that uses a LUT, or non-zero reserved banks, leaves the state as it was.
C5_StripeClobbersState ==
    [][(lut_pc = "loop" /\ Len(hl_stream') = Len(hl_stream) + 1) =>
          LET cmd == hl_stream'[Len(hl_stream')]
              clobbers == /\ PassLutTensor(cmd.ps) = NoTensor
                          /\ arch.shram_reserved_unused_banks = 0
          IN  /\ (cmd.cmdtype = "NpuStripe" /\ clobbers) => lut_state' = <<>>
              /\ (cmd.cmdtype = "NpuStripe" /\ ~clobbers) => lut_state' = lut_state
              /\ (cmd.cmdtype = "DMA" /\ ~IsLutDma(cmd)) => lut_state' = lut_state
              /\ (IsLutDma(cmd) /\ lut_state = <<>>) =>
                    /\ cmd_stream' = Append(cmd_stream, cmd)
                    /\ dropped' = dropped]_vars

\* an equivalent LUT was loaded, a stripe cleared the state, and the next LUT
\* DMA (of an equivalent LUT) was kept
C5_Witness ==
    \E i, j, k \in DOMAIN hl_stream :
        /\ i < j /\ j < k
        /\ i \in KeptLutDmas /\ k \in KeptLutDmas
        /\ j \in ResettingStripes
        /\ \A m \in (j+1)..(k-1) : ~IsLutDma(hl_stream[m])
        /\ equivalent(tensors[hl_stream[i].out_tensor], tensors[hl_stream[k].out_tensor])

(***************************************************************************)
(* Properties of the pass packer                                           *)
(***************************************************************************)
BuiltPasses == {reverse_pass_list[i] : i \in DOMAIN reverse_pass_list}

NpuPasses == {ps \in BuiltPasses : ps.placement = "Npu"}

\* operations of the input graph (the synthesized AvgPool ops carry a name suffix)
InputOps == {o \in DOMAIN sg_ops : sg_ops[o].name.suffix = ""}

PassOf(o) == reverse_pass_list[sg_ops[o].scheduled_pass]

\* the table row through which op o was added to its pass
RowOf(o) ==
    LET ps == PassOf(o)
    IN  ps.rows[CHOOSE k \in DOMAIN ps.ops : ps.ops[k] = o]

\* C6: every pass built by pack_into_passes has exactly one of the flags Npu,
\* Cpu, MemoryOnly, StartupInit in its accumulated flags; the mutual-exclusion
\* assertions of build_pass never fire and placement is never Unknown.
C6_ExactlyOnePlacementFlag ==
    /\ failed_assert \notin {"placement == PassPlacement.Unknown",
                             "placement != PassPlacement.Unknown"}
    /\ \A ps \in BuiltPasses :
          /\ Cardinality(ps.flags \cap PlacementFlags) = 1
          /\ ps.placement \in ps.flags \cap PlacementFlags

C6_Witness ==
    /\ pack_pc = "done"
    /\ \E ps \in BuiltPasses : Len(ps.ops) >= 2 /\ ps.placement = "Npu"
    /\ \E ps \in BuiltPasses : ps.placement = "MemoryOnly"
    /\ \E ps \in BuiltPasses : ps.placement = "StartupInit"

\* C7 (as stated): for every pass with placement Npu exactly one of the flags
\* Mac and ElementWise is set in the accumulated flags.
C7_ExactlyOneOfMacElementWise ==
    \A ps \in NpuPasses : Cardinality(ps.flags \cap {"Mac", "ElementWise"}) = 1

\* C7 (amended): every pass with placement Npu has at least one of the flags
\* Mac and ElementWise; both are set exactly when the pass holds an operation
\* added through the npu_pre_ops row, which sets both.
C7_MacOrElementWise ==
    \A ps \in NpuPasses :
        /\ ps.flags \cap {"Mac", "ElementWise"} # {}
        /\ ({"Mac", "ElementWise"} \subseteq ps.flags)
              <=> (\E k \in DOMAIN ps.rows :
                      ps.rows[k] # NoRow /\ test_sequence[ps.rows[k]].ops_set = npu_pre_ops)

C7_Witness ==
    /\ pack_pc = "done"
    /\ \E ps \in NpuPasses : {"Mac", "ElementWise"} \subseteq ps.flags
    /\ \E ps \in NpuPasses : "Post" \in ps.flags /\ "Main" \notin ps.flags
                             /\ "Mac" \notin ps.flags

\* C8 (as stated): every pass with placement Npu has a non-null primary_op and
\* a non-null ofm_tensor, including passes that consist only of a DMA op.
C8_NpuPassHasPrimaryOp ==
    \A ps \in NpuPasses : ps.primary_op # NoOp /\ ps.ofm_tensor # NoTensor

\* C9: an operator is added to a pass through a row whose flags_to_set contain
\* Npu only if run_on_npu is true; every operator of the input graph that ends
\* in a pass with placement Npu has run_on_npu = true.
C9_NpuRowsNeedRunOnNpu ==
    \A ps \in BuiltPasses :
        \A k \in DOMAIN ps.ops :
            LET op == sg_ops[ps.ops[k]]
            IN  /\ (ps.rows[k] # NoRow /\ "Npu" \in test_sequence[ps.rows[k]].flags_to_set)
                      => op.run_on_npu
                /\ (ps.placement = "Npu" /\ ps.ops[k] \in InputOps) => op.run_on_npu

C9_Witness ==
    /\ pack_pc = "done"
    /\ \E ps \in NpuPasses : Len(ps.ops) >= 2
    /\ \E o \in InputOps :
          /\ ~sg_ops[o].run_on_npu
          /\ sg_ops[o].type \in (npu_post_ops \cup mac_main_ops)
          /\ PassOf(o).placement = "Cpu"

LegalityFailed ==
    {o \in InputOps : ~sg_ops[o].run_on_npu /\ sg_ops[o].type \notin startup_init_ops}

\* C10 (as stated): every operator for which the legality check failed
\* (run_on_npu = false) ends in a pass with placement Cpu chosen through the
\* wildcard row, the warning is emitted for it, and packing proceeds.
C10_UnsupportedGoesToWildcard ==
    /\ pack_pc # "aborted"
    /\ pack_pc = "done" =>
          \A o \in LegalityFailed :
              /\ sg_ops[o].scheduled_pass # 0
              /\ PassOf(o).placement = "Cpu"
              /\ RowOf(o) = WildcardRow
              /\ InSeq(o, warnings)

\* C10 (amended): an operator with run_on_npu = false whose type is in none of
\* startup_init_ops, memory_only_ops and cpu_ops ends in a Cpu pass chosen
\* through the wildcard row and the warning is emitted for it; one whose type
\* is in cpu_ops is placed on Cpu through the cpu_ops row without that
\* warning; one whose type is in memory_only_ops gets a MemoryOnly pass
\* without warning.  Packing of the remaining graph proceeds in every case.
C10_UnsupportedPlacement ==
    /\ pack_pc # "aborted"
    /\ pack_pc = "done" =>
          \A o \in LegalityFailed :
              /\ sg_ops[o].scheduled_pass # 0
              /\ sg_ops[o].type \notin (memory_only_ops \cup cpu_ops) =>
                    /\ PassOf(o).placement = "Cpu"
                    /\ RowOf(o) = WildcardRow
                    /\ CountIn(o, warnings) = 1
              /\ sg_ops[o].type \in cpu_ops =>
                    /\ PassOf(o).placement = "Cpu"
                    /\ test_sequence[RowOf(o)].ops_set = cpu_ops
                    /\ ~InSeq(o, warnings)
              /\ sg_ops[o].type \in memory_only_ops =>
                    /\ PassOf(o).placement = "MemoryOnly"
                    /\ test_sequence[RowOf(o)].ops_set = memory_only_ops
                    /\ ~InSeq(o, warnings)

C10_Witness ==
    /\ pack_pc = "done"
    /\ Len(sg_passes) >= 3
    /\ \E o \in LegalityFailed :
          /\ sg_ops[o].type \in (npu_post_ops \cup mac_main_ops)
          /\ RowOf(o) = WildcardRow
          /\ InSeq(o, warnings)
          /\ sg_ops[o].scheduled_pass < Len(reverse_pass_list)

(***************************************************************************)
(* find_best_address as a function of the state and its arguments          *)
(***************************************************************************)
\* the addresses start, start + step, ... below stop (range(start, stop, step))
CandidateAddresses(start, stop, step) ==
    {start + k * step : k \in 0..((stop - start - 1) \div step)}

\* <<start, stop, step>> triples find_best_address is evaluated with in every state: the
\* call line 115 makes for a 512-byte LUT, a range that starts and stops inside the LUT region
\* with a step that does not divide its length, and a range of two one-byte candidates
BestAddressArguments ==
    {<<LutRegionStart, LutRegionEnd, 512>>,
     <<LutRegionStart + 256, LutRegionStart + 1280, 768>>,
     <<LutRegionStart, LutRegionStart + 2, 1>>}

\* C20: for every state the rewrite pass builds and every start < stop, the address
\* find_best_address(start, stop, step) returns is one of start, start + step, ... below
\* stop, its interval [addr, addr + step) overlaps the fewest resident LUTs of all these
\* addresses, and it is the lowest address with that fewest number of overlaps.
C20_BestAddressFewestOverlapsLowest ==
    \A args \in BestAddressArguments :
        LET start == args[1]
            stop == args[2]
            step == args[3]
            best == find_best_address(lut_state, tensors, start, stop, step)
            nr == NrOverlaps(lut_state, tensors, best, step)
        IN  start < stop =>
                /\ best \in CandidateAddresses(start, stop, step)
                /\ \A addr \in CandidateAddresses(start, stop, step) :
                      LET other == NrOverlaps(lut_state, tensors, addr, step)
                      IN  /\ nr <= other
                          /\ other = nr => best <= addr

\* a 512-byte LUT was placed at the second 512-byte position because the first one overlapped
\* the resident LUT at the start of the region, although later positions were free as well
C20_Witness ==
    /\ Len(lut_state) = 2
    /\ tensors[lut_state[1]].address = LutRegionStart + 512
    /\ storage_size(tensors[lut_state[1]]) = 512
    /\ tensors[lut_state[2]].address = LutRegionStart
    /\ NrOverlaps(lut_state, tensors, LutRegionStart + 1024, 512) = 0
    /\ NrOverlaps(<<lut_state[2]>>, tensors, LutRegionStart, 512) = 1

(***************************************************************************)
(* Consumer lists after packing                                            *)
(***************************************************************************)
\* the operations in tens.consumer_list (the entry of the graph itself left out)
ConsumerOps(t) == SelectSeq(sg_tensors[t].consumer_list, LAMBDA o : o # GraphConsumer)

\* the operations, synthesized ones included, that list tensor t as an input
OpsReading(t) == {o \in DOMAIN sg_ops : InSeq(t, sg_ops[o].inputs)}

\* C17: after pack_into_passes, including the case where a 1x1 AvgPool primary op was
\* synthesized, the consumer list of every tensor has as many operator entries as there are
\* operators that list the tensor as an input.
C17_ConsumerListMatchesInputs ==
    pack_pc = "done" =>
        \A t \in DOMAIN sg_tensors : Len(ConsumerOps(t)) = Cardinality(OpsReading(t))

(***************************************************************************)
(* The startup pass                                                        *)
(***************************************************************************)
\* the startup-init operations of the input graph
StartupInitOps == {o \in InputOps : sg_ops[o].type \in startup_init_ops}

IsStartupPass(ps) ==
    /\ ps.name.suffix = "startup_weight_initialisation"
    /\ ps.placement = "StartupInit"

\* C18: when packing is done, all startup-init operators of the subgraph (each of them
\* became ready during the traversal) are the operators of one single pass named
\* "startup_weight_initialisation" with placement StartupInit, no other pass holds a
\* startup-init operator, and that pass is the first pass of sg.passes.
C18_OneStartupPassFirst ==
    pack_pc = "done" =>
        /\ \A o \in StartupInitOps : visit_op_refcount[o] = Len(sg_ops[o].outputs)
        /\ \A i \in DOMAIN sg_passes :
              \/ i = 1 /\ StartupInitOps # {} /\ IsStartupPass(sg_passes[i])
                   /\ {sg_passes[i].ops[k] : k \in DOMAIN sg_passes[i].ops} = StartupInitOps
              \/ /\ ~IsStartupPass(sg_passes[i])
                 /\ sg_passes[i].placement # "StartupInit"
                 /\ \A k \in DOMAIN sg_passes[i].ops : sg_passes[i].ops[k] \notin StartupInitOps
        /\ StartupInitOps # {} => sg_passes # <<>> /\ IsStartupPass(sg_passes[1])

\* two startup-init operations, collected before and after the pass of another operation
\* was built, share the startup pass, which was built last and comes first
C18_Witness ==
    /\ pack_pc = "done"
    /\ StartupInitOps = {1, 3}
    /\ Len(sg_passes) = 2
    /\ IsStartupPass(sg_passes[1])
    /\ Len(sg_passes[1].ops) = 2
    /\ sg_passes[2].ops[Len(sg_passes[2].ops)] = 2

(***************************************************************************)
(* Properties of npu_get_API_version                                       *)
(***************************************************************************)
\* the test's decoding of the returned integer (test_extapi_get_version.py, lines 24-25)
version_major == FromBits(BitShiftRight(version, 16))
version_minor == FromBits(BitAnd(ToBits(65535), version))

\* C19: for every major and minor version in 0..65535 the integer npu_get_API_version
\* returns is (major << 16) | (minor & 0xFFFF), a value of at most 32 bits whose upper
\* half result >> 16 is the major version and whose lower half result & 0xFFFF is the
\* minor version, so that "major.minor" built from the two halves is the api_version string.
C19_VersionRoundTrip ==
    api_pc = "returned" =>
        /\ Len(version) <= 32
        /\ version_major = API_version_major
        /\ version_minor = API_version_minor
        /\ FormatVersion(version_major, version_minor) = api_version

\* the call returned for the largest major version together with a non-zero minor version
C19_Witness ==
    /\ api_pc = "returned"
    /\ API_version_major = 65535
    /\ API_version_minor = 256
    /\ Len(version) = 32

(***************************************************************************)
(* C11: acceptance is the conjunction of the constraints, taken in order   *)
(***************************************************************************)
RECURSIVE ValidPrefix(_, _, _)
\* the number of constraints, from position i on, that return valid = true before the first
\* one that returns valid = false or raises
ValidPrefix(constraints, op, i) ==
    IF i > Len(constraints) THEN Len(constraints)
    ELSE IF ~Raises(constraints[i], op) /\ Valid(constraints[i], op)
    THEN ValidPrefix(constraints, op, i + 1)
    ELSE i - 1

Warnings(log) == SelectSeq(log, LAMBDA entry : entry.kind = "Warning")

\* C11: is_operator_supported returns true iff op.type is a supported operator and every
\* generic and every per-kind constraint of op.type returns valid = true; the constraints are
\* called in order, the generic ones first, and the first one that returns valid = false
\* ends the evaluation and is the only one whose diagnostic is emitted. A constraint that
\* raises ends the call without a result and without a diagnostic.
C11_SupportedIffAllConstraintsValid ==
    LET registered == generic_constraints \o specific_constraints(sup_op.type)
        n == ValidPrefix(registered, sup_op, 1)
        supported == sup_op.type \in supported_operators
        raises == n < Len(registered) /\ Raises(registered[n + 1], sup_op)
    IN  /\ sup_pc = "done" => (sup_result <=> (supported /\ n = Len(registered)))
        /\ Len(sup_evaluated) <= Len(registered)
        /\ sup_evaluated = SubSeq(registered, 1, Len(sup_evaluated))
        /\ Len(sup_evaluated) <= n + 1
        /\ ~supported => sup_evaluated = <<>> /\ Warnings(sup_log) = <<>>
        /\ sup_pc # "done" => sup_log = <<>>
        /\ (sup_pc = "done" /\ sup_result) => sup_evaluated = registered /\ sup_log = <<>>
        /\ (sup_pc = "done" /\ supported /\ ~sup_result) =>
               /\ Len(sup_evaluated) = n + 1
               /\ ~raises
               /\ sup_log = <<[kind |-> "Warning", constraint |-> registered[n + 1]]>>
        /\ sup_pc = "raised" =>
               /\ supported /\ raises
               /\ Len(sup_evaluated) = n + 1
               /\ ~sup_result

\* an Add rejected by constraint_matching_either_shapes, its only diagnostic, although
\* constraint_broadcast_shapes, registered after it, is invalid too
C11_Witness ==
    /\ sup_pc = "done"
    /\ sup_op.type = "Add"
    /\ ~sup_result
    /\ sup_log = <<[kind |-> "Warning", constraint |-> "constraint_matching_either_shapes"]>>
    /\ sup_evaluated[Len(sup_evaluated)] = "constraint_matching_either_shapes"
    /\ Len(sup_evaluated) > Len(generic_constraints)
    /\ ~constraint_broadcast_shapes(sup_op)

(***************************************************************************)
(* C12: data types of the tensors of an accepted operation                 *)
(***************************************************************************)
Accepted == sup_pc = "done" /\ sup_result

HasSupportedOpDtype(tens) == tens.dtype \in supported_op_dtypes

\* C12 as stated: every tensor in the inputs and outputs of an accepted operation, the
\* bias and other auxiliary inputs included, has a data type in {UINT8, INT8, INT16, INT32}.
C12_AllTensorsSupportedDtype ==
    Accepted => AllOf(sup_op.inputs \o sup_op.outputs, HasSupportedOpDtype)

\* C12 amended: the IFM, IFM2, weights and OFM of an accepted operation have a data type in
\* {UINT8, INT8, INT16, INT32}; the bias of an accepted convolution-family or vector-product
\* operation has data type INT32 or INT64.
C12_CheckedTensorsSupportedDtype ==
    Accepted =>
        /\ AllOf(get_ifm_ifm2_weights_ofm(sup_op), HasSupportedOpDtype)
        /\ (sup_op.type \in convolution_like_ops \cup fc_vector_products
                /\ op_bias(sup_op) # None) =>
               op_bias(sup_op)[1].dtype \in supported_bias_dtypes

\* an accepted FullyConnected whose bias is INT64
C12_Witness ==
    /\ Accepted
    /\ sup_op.type = "FullyConnected"
    /\ Len(sup_op.inputs) = 3
    /\ sup_op.inputs[3].dtype = "int64"
    /\ "constraint_tens_dtype" \in {sup_evaluated[i] : i \in DOMAIN sup_evaluated}

(***************************************************************************)
(* C13: an elementwise operation needs an IFM of the shape of the OFM      *)
(***************************************************************************)
AddOp(ifm_shape, ifm2_shape, ofm_shape) ==
    MakeOp("Add", <<Tens(ifm_shape, "uint8"), Tens(ifm2_shape, "uint8")>>,
           <<Tens(ofm_shape, "uint8")>>, NoAttrs, None)

\* C13: an accepted elementwise operation has an IFM or an IFM2 of the shape of its OFM
\* (a unary one an IFM of the shape of its OFM); Add [1,4] + [4,4] -> [4,4] is accepted
\* and Add [1,1,4,1] + [1,4,1,16] -> [1,4,4,16] is rejected, in either operand order.
C13_EitherShapeMatchesOfm ==
    /\ (Accepted /\ sup_op.type \in SupportedOperators_elem_wise_main_ops) =>
           \/ op_ifm(sup_op)[1].shape = op_ofm(sup_op)[1].shape
           \/ /\ op_ifm2(sup_op) # None
              /\ op_ifm2(sup_op)[1].shape = op_ofm(sup_op)[1].shape
    /\ (sup_pc = "done" /\ sup_op \in {AddOp(<<1, 4>>, <<4, 4>>, <<4, 4>>),
                                        AddOp(<<4, 4>>, <<1, 4>>, <<4, 4>>)}) => sup_result
    /\ (sup_pc = "done"
           /\ sup_op \in {AddOp(<<1, 1, 4, 1>>, <<1, 4, 1, 16>>, <<1, 4, 4, 16>>),
                          AddOp(<<1, 4, 1, 16>>, <<1, 1, 4, 1>>, <<1, 4, 4, 16>>)}) =>
           /\ ~sup_result
           /\ sup_log = <<[kind |-> "Warning",
                           constraint |-> "constraint_matching_either_shapes"]>>

\* the accepted Add [1,4] + [4,4] -> [4,4], whose IFM differs from the OFM
C13_Witness ==
    /\ Accepted
    /\ sup_op = AddOp(<<1, 4>>, <<4, 4>>, <<4, 4>>)
    /\ "constraint_matching_either_shapes" \in {sup_evaluated[i] : i \in DOMAIN sup_evaluated}

(***************************************************************************)
(* C14: bias values and the 40-bit signed bias field                       *)
(***************************************************************************)
\* constraint_bias_40bit was the last constraint called and the call has returned
Bias40bitDecided ==
    /\ sup_pc = "done"
    /\ sup_op.type \in convolution_like_ops \cup fc_vector_products
    /\ op_bias(sup_op) # None
    /\ op_bias(sup_op)[1].dtype = "int64"
    /\ op_bias(sup_op)[1].quant_values # None
    /\ sup_evaluated # <<>>
    /\ sup_evaluated[Len(sup_evaluated)] = "constraint_bias_40bit"

\* C14: for a convolution-family or vector-product operation with an INT64 bias,
\* constraint_bias_40bit passes iff every bias value lies in [-2^39, 2^39 - 1].
C14_Bias40bitIffFitsSigned ==
    (Bias40bitDecided /\ specific_constraints(sup_op.type)[Len(specific_constraints(sup_op.type))]
                            = "constraint_bias_40bit") =>
        (sup_result <=> AllOf(op_bias(sup_op)[1].quant_values[1], FitsSigned40))

(***************************************************************************)
(* C15: the axis and the shapes of an accepted Concat                      *)
(***************************************************************************)
AcceptedConcat == Accepted /\ sup_op.type \in {"Concat", "ConcatTFLite"}

\* every input has the rank of the OFM and equals it on the dimensions (from 0) other than axis
InputsMatchOfmExcept(op, axis) ==
    LET ofm_shape == Dims(op_ofm(op)[1].shape)
    IN  \A i \in DOMAIN op.inputs :
            /\ Len(Dims(op.inputs[i].shape)) = Len(ofm_shape)
            /\ \A dim \in 0..(Len(ofm_shape) - 1) :
                   dim # axis => Dims(op.inputs[i].shape)[dim + 1] = ofm_shape[dim + 1]

\* C15 as stated: an accepted Concat has an axis attribute with 0 <= axis < rank(OFM), every
\* input has the rank of the OFM and equals the OFM on all dimensions other than axis.
C15_AxisInRangeFromZero ==
    AcceptedConcat =>
        /\ sup_op.attrs.axis # None
        /\ 0 <= sup_op.attrs.axis[1]
        /\ sup_op.attrs.axis[1] < Len(Dims(op_ofm(sup_op)[1].shape))
        /\ InputsMatchOfmExcept(sup_op, sup_op.attrs.axis[1])

(***************************************************************************)
(* C16: the IFM/OFM pairs constraint_resize accepts                        *)
(***************************************************************************)
\* more doublings than any IFM of ResizeIfmShapes needs to pass the largest OFM
MaxUpscales == 6

RECURSIVE Upscaled(_, _, _)
\* x after k applications of x -> 2x (align_corners false) or x -> 2x - 1 (true)
Upscaled(x, align_corners, k) ==
    IF k = 0 THEN x
    ELSE Upscaled(IF align_corners THEN 2 * x - 1 ELSE 2 * x, align_corners, k - 1)

\* constraint_resize was the last constraint called, on a rank-4 IFM, and has returned
ResizeDecided ==
    /\ sup_pc = "done"
    /\ sup_op.type = "ResizeBilinear"
    /\ sup_evaluated # <<>>
    /\ sup_evaluated[Len(sup_evaluated)] = "constraint_resize"
    /\ Len(Dims(op_ifm(sup_op)[1].shape)) = 4

\* C16: constraint_resize accepts a ResizeBilinear with a rank-4 IFM iff the IFM height and
\* width are both 1, or the IFM shape equals the OFM shape, or the OFM height and width are
\* the IFM height and width after one or more applications of x -> 2x (align_corners
\* false) or x -> 2x - 1 (align_corners true); every other pair is rejected.
C16_ResizeIffUpscaled ==
    ResizeDecided =>
        LET ifm_shape == Dims(op_ifm(sup_op)[1].shape)
            ofm_shape == Dims(op_ofm(sup_op)[1].shape)
            align_corners == sup_op.attrs.align_corners
        IN  sup_result <=>
                \/ ifm_shape[2] = 1 /\ ifm_shape[3] = 1
                \/ ifm_shape = ofm_shape
                \/ \E k \in 1..MaxUpscales :
                       /\ Upscaled(ifm_shape[2], align_corners, k) = ofm_shape[2]
                       /\ Upscaled(ifm_shape[3], align_corners, k) = ofm_shape[3]

(***************************************************************************)
(* C21: LUTState.put keeps exactly the LUTs that do not overlap the new one *)
(***************************************************************************)
\* the LUT states (lists of distinct resident tensors) put(L) can be called on
ResidentLists(L) ==
    {state \in UNION {[1..n -> LutTensors \ {L}] : n \in 0..(NumLutTensors - 1)} :
        \A i, j \in DOMAIN state : i # j => state[i] # state[j]}

\* the half-open address intervals of t1 and t2 have a byte in common
Intersect(tens, t1, t2) ==
    /\ tens[t1].address < tens[t2].address + storage_size(tens[t2])
    /\ tens[t2].address < tens[t1].address + storage_size(tens[t1])

\* C21: put(L) returns a state whose resident set is exactly L plus every previously
\* resident LUT whose address interval does not overlap L's: every overlapping LUT is
\* evicted and no other one (put is an operator on state values, so the state it is
\* called on is not changed).
C21_PutKeepsExactlyNonOverlapping ==
    lut_pc # "idle" =>
        \A L \in LutTensors :
            \A state \in ResidentLists(L) :
                LET new_state == put(state, tensors, L)
                    kept == {t \in {state[i] : i \in DOMAIN state} : ~Intersect(tensors, t, L)}
                IN  /\ {new_state[i] : i \in DOMAIN new_state} = {L} \cup kept
                    /\ Len(new_state) = 1 + Cardinality(kept)
                    /\ new_state[1] = L

\* addresses assigned by the rewrite pass for which one put evicts one resident LUT and
\* keeps another, after a put of the pass has kept the resident LUT
C21_Witness ==
    /\ lut_pc = "done"
    /\ \E L \in LutTensors :
          \E state \in ResidentLists(L) :
              /\ Len(state) = 2
              /\ Len(put(state, tensors, L)) = 2
              /\ \A i \in DOMAIN state : tensors[state[i]].address >= LutRegionStart
              /\ tensors[L].address >= LutRegionStart
    /\ Len(lut_state) = 2
    /\ Cardinality(KeptLutDmas) = 2

(***************************************************************************)
(* C22: the rewrite pass removes LUT DMA commands only                     *)
(***************************************************************************)
RECURSIVE IsSubsequence(_, _)
\* the elements of s appear in t in the same relative order
IsSubsequence(s, t) ==
    IF s = <<>> THEN TRUE
    ELSE IF t = <<>> THEN FALSE
    ELSE IF Head(s) = Head(t) THEN IsSubsequence(Tail(s), Tail(t))
    ELSE IsSubsequence(s, Tail(t))

NotLutDma(cmd) == ~(cmd.cmdtype = "DMA" /\ cmd.purpose = "LUT")

\* C22: the command stream left by the rewrite pass is the input stream with only LUT DMA
\* commands removed: every other command is kept unchanged and the kept commands are in
\* their original relative order.
C22_OnlyLutDmasRemoved ==
    lut_pc = "done" =>
        /\ IsSubsequence(cmd_stream, hl_stream)
        /\ SelectSeq(cmd_stream, NotLutDma) = SelectSeq(hl_stream, NotLutDma)
        /\ Len(hl_stream) - Len(cmd_stream) = Cardinality(dropped)
        /\ \A i \in dropped : ~NotLutDma(hl_stream[i])

\* a stream of four commands with a weights DMA and a stripe, one LUT DMA of which is removed
C22_Witness ==
    /\ lut_pc = "done"
    /\ Len(hl_stream) = 4
    /\ Len(cmd_stream) = 3
    /\ \E i \in DOMAIN cmd_stream : cmd_stream[i] = DmaWeightsCmd
    /\ \E i \in DOMAIN cmd_stream : cmd_stream[i].cmdtype = "NpuStripe"
    /\ hl_stream[4] # cmd_stream[3]

(***************************************************************************)
(* C28: the recorded slot of a kept LUT DMA stays that of its LUT tensor   *)
(***************************************************************************)
\* C28: at the end of the rewrite pass, for every LUT DMA kept in the output stream, the
\* lut_index on its pass's primary op equals (final address of its LUT tensor -
\* shram_lut_address) / 256.
C28_KeptDmaIndexMatchesFinalAddress ==
    lut_pc = "done" =>
        \A i \in KeptLutDmas :
            lut_index[hl_stream[i].ps] =
                (tensors[hl_stream[i].out_tensor].address - arch.shram_lut_address) \div 256

(***************************************************************************)
(* C29: a dropped LUT DMA has a live equivalent LUT at its address         *)
(***************************************************************************)
\* line 97: the command overwrites the banks holding the LUTs
ClearsState(cmd) ==
    /\ cmd.cmdtype = "NpuStripe"
    /\ cmd.ps = 0
    /\ arch.shram_reserved_unused_banks = 0

\* the bytes written by the kept LUT DMA at position k share a byte with [start, end)
WritesInto(k, start, end) ==
    LET start2 == lut_addresses[k][1]
        end2 == start2 + storage_size(tensors[hl_stream[k].out_tensor])
    IN  start < end2 /\ start2 < end

\* C29: whenever a LUT DMA is dropped, an equivalent LUT was written by an earlier kept LUT
\* DMA to exactly the address the dropped LUT is assigned, and between the two commands
\* there is neither a state-clearing stripe nor a kept LUT DMA writing into that range.
C29_DroppedLutIsLive ==
    \A j \in dropped :
        \E i \in KeptLutDmas :
            LET lut == tensors[hl_stream[i].out_tensor]
                start == lut_addresses[i][1]
            IN  /\ i < j
                /\ lut.equivalence_id = tensors[hl_stream[j].out_tensor].equivalence_id
                /\ lut_addresses[j] = lut_addresses[i]
                /\ \A m \in (i + 1)..(j - 1) :
                       /\ ~ClearsState(hl_stream[m])
                       /\ m \in KeptLutDmas => ~WritesInto(m, start, start + storage_size(lut))

\* a LUT DMA dropped after a clearing stripe, a re-load of an equivalent LUT and the kept
\* DMA of another LUT
C29_Witness ==
    /\ lut_pc = "done"
    /\ Len(hl_stream) = 4
    /\ dropped = {4}
    /\ ClearsState(hl_stream[1])
    /\ KeptLutDmas = {2, 3}
    /\ hl_stream[4].out_tensor # hl_stream[2].out_tensor
    /\ lut_addresses[4] = lut_addresses[2]

(***************************************************************************)
(* C23: the first qualifying row of the table decides                      *)
(***************************************************************************)
\* the pass appended by this step
NewPass == reverse_pass_list'[Len(reverse_pass_list')]

\* the rows through which the ops of pass ps were added, in the order of addition
RowsAdded(ps) == SelectSeq(Reverse(ps.rows), LAMBDA r : r # NoRow)

\* the op added j-th to pass ps
OpAdded(ps, j) == ps.ops[Len(ps.ops) + 1 - j]

\* the flags accumulated after the additions through rows
RECURSIVE FlagsAfter(_)
FlagsAfter(rows) ==
    IF rows = <<>> THEN {}
    ELSE LET row == test_sequence[rows[Len(rows)]]
         IN  (FlagsAfter(SubSeq(rows, 1, Len(rows) - 1)) \ row.flags_to_clear)
                 \cup row.flags_to_set

\* row r of the table qualifies for op under the accumulated flags
Qualifies(r, op, flags) ==
    LET row == test_sequence[r]
    IN  /\ r = WildcardRow \/ op.type \in row.ops_set
        /\ flags \cap row.incompatible_pack_flags = {}
        /\ "Npu" \in row.flags_to_set => op.run_on_npu

\* C23: in every pass that build_pass creates, each op was added through the first row of
\* test_sequence, in table order, whose operator set contains its type (or which is the
\* wildcard), whose incompatible flags do not intersect the flags accumulated before it and
\* which does not set Npu while run_on_npu is false, and its flags were applied; a candidate
\* for which no row qualifies is not in the pass and the tensor it was reached through is a
\* pass input.
C23_FirstQualifyingRow ==
    [][Len(reverse_pass_list') = Len(reverse_pass_list) + 1 =>
        LET ps == NewPass
            rows == RowsAdded(ps)
        IN  /\ \A j \in DOMAIN rows :
                LET op == sg_ops[OpAdded(ps, j)]
                    flags == FlagsAfter(SubSeq(rows, 1, j - 1))
                IN  /\ Qualifies(rows[j], op, flags)
                    /\ \A q \in 1..(rows[j] - 1) : ~Qualifies(q, op, flags)
                    /\ test_sequence[rows[j]].flags_to_set \subseteq ps.flags
                    /\ \A i \in DOMAIN op.inputs :
                          LET inp == op.inputs[i]
                          IN  CanPack(sg_ops, sg_tensors, OpAdded(ps, j), inp) =>
                                LET next_op == sg_tensors[inp].ops[1]
                                IN  \/ InSeq(next_op, ps.ops)
                                    \/ /\ \A q \in DOMAIN test_sequence :
                                             ~Qualifies(q, sg_ops[next_op],
                                                        FlagsAfter(SubSeq(rows, 1, j)))
                                       /\ InSeq(inp, ps.inputs)
            /\ ps.flags = AmbidextrousFlags(FlagsAfter(rows))
    ]_vars

\* the pass of a Relu into which the preceding Tanh was fused through the second row, and
\* whose next candidate, a convolution that runs on the NPU, found no row and left its
\* output as the pass input
C23_Witness ==
    /\ pack_pc = "done"
    /\ \E ps \in BuiltPasses :
          /\ sg_ops[ps.ops[Len(ps.ops)]].type = "Relu"
          /\ RowsAdded(ps) = <<1, 2>>
          /\ \E t \in DOMAIN sg_tensors :
                /\ ps.inputs = <<t>>
                /\ Len(sg_tensors[t].ops) = 1
                /\ sg_ops[sg_tensors[t].ops[1]].type = "Conv2D"
                /\ sg_ops[sg_tensors[t].ops[1]].run_on_npu
                /\ ~InSeq(sg_tensors[t].ops[1], ps.ops)

(***************************************************************************)
(* C24: tensors produced inside a pass stay inside it                      *)
(***************************************************************************)
\* every consumer of tensor t is an op of pass ps
ConsumedInside(ps, t) ==
    /\ \A i \in DOMAIN sg_tensors[t].consumer_list :
          /\ sg_tensors[t].consumer_list[i] # GraphConsumer
          /\ InSeq(sg_tensors[t].consumer_list[i], ps.ops)
    /\ \A o \in OpsReading(t) : InSeq(o, ps.ops)

\* every tensor produced by an op of ps other than its last op is consumed inside ps
InnerTensorsStayInside(ps) ==
    \A k \in 1..(Len(ps.ops) - 1) :
        \A i \in DOMAIN sg_ops[ps.ops[k]].outputs :
            ConsumedInside(ps, sg_ops[ps.ops[k]].outputs[i])

\* every tensor read by an op of ps and not produced by an op of ps is an input of ps
OuterTensorsAreInputs(ps) ==
    \A k \in DOMAIN ps.ops :
        \A i \in DOMAIN sg_ops[ps.ops[k]].inputs :
            LET t == sg_ops[ps.ops[k]].inputs[i]
            IN  (\A j \in DOMAIN sg_tensors[t].ops : ~InSeq(sg_tensors[t].ops[j], ps.ops))
                    => InSeq(t, ps.inputs)

\* C24: an operator is fused into a pass as a candidate only if every one of its output
\* tensors has no consumer outside that pass; in every produced pass each tensor produced
\* by an op other than the pass's last op is consumed only by ops of the same pass, and a
\* tensor read in the pass whose producer was not fused is a pass input.
C24_InnerTensorsOfEveryPass ==
    \A ps \in BuiltPasses : InnerTensorsStayInside(ps) /\ OuterTensorsAreInputs(ps)

\* C24 (amended): an operator is fused into a pass as a candidate only if every one of its
\* output tensors has no consumer outside that pass; in every produced pass other than the
\* startup pass, whose ops are all start ops, each tensor produced by an op other than the
\* pass's last op is consumed only by ops of the same pass, and in every pass a tensor
\* read in the pass whose producer was not fused is a pass input.
C24_InnerTensorsOfCandidates ==
    \A ps \in BuiltPasses :
        /\ ps.placement # "StartupInit" => InnerTensorsStayInside(ps)
        /\ OuterTensorsAreInputs(ps)

\* a pass with a fused producer whose output stays inside, beside a producer that was not
\* fused because its output has a second consumer
C24_Witness ==
    /\ pack_pc = "done"
    /\ \E ps \in BuiltPasses :
          /\ ps.placement = "Npu"
          /\ RowsAdded(ps) = <<1, 3>>
          /\ Len(ps.inputs) = 1
    /\ \E ps \in BuiltPasses, t \in DOMAIN sg_tensors :
          /\ InSeq(t, ps.inputs)
          /\ Len(sg_tensors[t].consumer_list) = 2
          /\ Len(sg_tensors[t].ops) = 1
          /\ FirstRow(sg_ops[sg_tensors[t].ops[1]],
                      FlagsAfter(<<ps.rows[Len(ps.rows)]>>)) # NoRow

(***************************************************************************)
(* C25: every reachable operator is in exactly one pass                    *)
(***************************************************************************)
\* the operators reachable backwards from the tensors of T
RECURSIVE ReachableOps(_, _)
ReachableOps(T, found) ==
    LET producers == {o \in DOMAIN sg_ops : \E i \in DOMAIN sg_ops[o].outputs :
                                                sg_ops[o].outputs[i] \in T}
        new == producers \ found
    IN  IF new = {} THEN found
        ELSE ReachableOps({t \in DOMAIN sg_tensors : \E o \in new : InSeq(t, sg_ops[o].inputs)},
                          found \cup new)

BackwardReachable ==
    ReachableOps({output_tensors[i] : i \in DOMAIN output_tensors}, {})

\* the places <<pass, position>> at which operator o is listed
PlacesOf(o) ==
    {pl \in (DOMAIN reverse_pass_list) \X (DOMAIN sg_ops) :
        /\ pl[2] \in DOMAIN reverse_pass_list[pl[1]].ops
        /\ reverse_pass_list[pl[1]].ops[pl[2]] = o}

\* C25: after pack_into_passes, every operator that is backward-reachable from the
\* subgraph's output tensors appears in exactly one pass's op list, exactly once, and its
\* scheduled_pass is that pass; the visit-count assertions of visit_tensor and visit_op
\* never fire.
C25_EveryReachableOpInOnePass ==
    /\ failed_assert \notin {"visit_tensor_refcount[tens] <= len(tens.consumers())",
                             "visit_op_refcount[op] <= len(op.outputs)"}
    /\ pack_pc # "aborted"
    /\ pack_pc = "done" =>
          \A o \in BackwardReachable :
              /\ Cardinality(PlacesOf(o)) = 1
              /\ \A pl \in PlacesOf(o) : sg_ops[o].scheduled_pass = pl[1]

\* three operators in two passes and the startup pass, one tensor read twice by one pass
C25_Witness ==
    /\ pack_pc = "done"
    /\ Cardinality(BackwardReachable \cap InputOps) = 3
    /\ \E ps \in BuiltPasses, t \in DOMAIN sg_tensors :
          /\ Len(ps.ops) = 2
          /\ \A k \in DOMAIN ps.ops : InSeq(t, sg_ops[ps.ops[k]].inputs)
    /\ \E o \in BackwardReachable : sg_ops[o].type \in startup_init_ops

(***************************************************************************)
(* C26: the synthesized 1x1 AvgPool                                        *)
(***************************************************************************)
IsSynthesized(o) == sg_ops[o].name.suffix = "_avgpool"

\* the rows of the table that add a Mac or ElementWise main op, and a pre or post op
MainRows == {r \in DOMAIN test_sequence : {"Npu", "Main"} \subseteq test_sequence[r].flags_to_set}
PrePostRows ==
    {r \in DOMAIN test_sequence :
        test_sequence[r].flags_to_set \cap {"Pre", "Post", "PostFusingLimited"} # {}}

\* the pass has the Npu flag, pre or post ops and no main op
NpuWithoutMainOp(ps) ==
    /\ "Npu" \in ps.flags
    /\ \A k \in DOMAIN ps.rows : ps.rows[k] \notin MainRows
    /\ \E k \in DOMAIN ps.rows : ps.rows[k] \in PrePostRows

\* the first op of ps is a 1x1 AvgPool on the first pass input, read by the former first op
AvgPoolSplicedIn(ps) ==
    /\ Len(ps.ops) >= 2
    /\ IsSynthesized(ps.ops[1])
    /\ \A k \in 2..Len(ps.ops) : ~IsSynthesized(ps.ops[k])
    /\ sg_ops[ps.ops[1]].type = "AvgPool"
    /\ sg_ops[ps.ops[1]].npu_block_type = "Pooling"
    /\ ps.inputs # <<>>
    /\ sg_ops[ps.ops[1]].inputs = <<ps.inputs[1]>>
    /\ sg_ops[ps.ops[2]].inputs[1] = sg_ops[ps.ops[1]].outputs[1]
    /\ ps.primary_op = ps.ops[1]
    /\ ps.npu_block_type = "Pooling"

\* C26: a pass that ends up with the Npu flag but no Mac/ElementWise main op (only pre/post
\* ops) gets a synthesized AvgPool with block type Pooling whose IFM is the pass's first
\* input, as the first element of its op list, read by the former first op, and as its
\* primary op; no AvgPool is synthesized for any other pass.
C26_AvgPoolOnlyForNpuWithoutMainOp ==
    \A ps \in BuiltPasses :
        /\ NpuWithoutMainOp(ps) => AvgPoolSplicedIn(ps)
        /\ (\E k \in DOMAIN ps.ops : IsSynthesized(ps.ops[k])) => NpuWithoutMainOp(ps)

(***************************************************************************)
(* C27: sg.passes is in dependency order                                   *)
(***************************************************************************)
\* the position in sg.passes of the pass that holds operator o, 0 when there is none
PositionOf(o) ==
    IF \E i \in DOMAIN sg_passes : InSeq(o, sg_passes[i].ops)
    THEN CHOOSE i \in DOMAIN sg_passes : InSeq(o, sg_passes[i].ops)
    ELSE 0

\* C27: in the pass list that pack_into_passes stores on the subgraph, for every pass P and
\* every input tensor T of P, the pass that contains the operator producing T appears
\* before P.
C27_PassesInDependencyOrder ==
    pack_pc = "done" =>
        \A i \in DOMAIN sg_passes :
            \A k \in DOMAIN sg_passes[i].inputs :
                LET T == sg_passes[i].inputs[k]
                IN  \A n \in DOMAIN sg_tensors[T].ops :
                        /\ PositionOf(sg_tensors[T].ops[n]) >= 1
                        /\ PositionOf(sg_tensors[T].ops[n]) < i

\* three passes of which the last two read a tensor produced by the first
C27_Witness ==
    /\ pack_pc = "done"
    /\ Len(sg_passes) = 3
    /\ \E T \in DOMAIN sg_tensors :
          /\ sg_tensors[T].ops # <<>>
          /\ PositionOf(sg_tensors[T].ops[1]) = 1
          /\ InSeq(T, sg_passes[2].inputs)
          /\ InSeq(T, sg_passes[3].inputs)

(***************************************************************************)
(* C30: the upscale loop of constraint_resize terminates                   *)
(***************************************************************************)
\* C30: for every rank-4 IFM and OFM whose dimensions lie in [1, 65535] and for both values
\* of align_corners, including IFMs in which exactly one of height and width is 1, the
\* upscale loop of constraint_resize terminates: constraint_resize eventually returns.
C30_UpscaleLoopTerminates == <>(resize_pc = "done")

\* with align_corners an IFM of height 1 and width 2 was upscaled towards an OFM of
\* 65535 x 65535: the height stayed 1 and the loop ended when the width passed 65535
C30_Witness ==
    /\ resize_pc = "done"
    /\ resize_align_corners
    /\ Len(resize_ifm_shape) = 4
    /\ Len(resize_ofm_shape) = 4
    /\ HeightWidth(resize_ifm_shape) = <<1, 2>>
    /\ HeightWidth(resize_ofm_shape) = <<65535, 65535>>
    /\ upscaled_shape = <<1, 65537>>
    /\ ~resize_valid

====
